---- MODULE Spec2Model ----
(***************************************************************************)
(* auto-shell: the agent execution engine (auto_shell/agent.py), its       *)
(* safety policy, the in-memory session store with its resumable advance   *)
(* protocol, and the HTTP handlers of auto_shell/server.py that drive it.  *)
(*                                                                         *)
(* Text is modelled as follows.  A shell command is a sequence of          *)
(* one-character strings, so that the regular-expression match of the      *)
(* safety policy is computed, not assumed.  Paths, messages, questions and *)
(* captured outputs are tokens (strings); the fixed texts of the source    *)
(* are named by ASCII tokens given next to the operator that produces      *)
(* them.  Time is counted in hours.                                        *)
(***************************************************************************)
EXTENDS Integers, Sequences, FiniteSets, TLC

\* ------------------------------------------------------------------ bounds
\* Longest command text enumerated for the safety policy.
MaxCmdLen == 3
\* Largest iteration budget (config.agent.max_iterations / max_iterations).
MaxIter == 2
\* Sessions created in one behaviour of the store.
MaxSessions == 2
\* Sessions created in one behaviour in which sessions are advanced.
MaxAdvanced == 1
\* Hours the clock runs.
MaxTime == 3
\* Calls of the reasoning adapter made by the session store in one behaviour.
MaxAdapterCalls == 2
\* Longest query handed to the complexity router.
MaxQueryLen == 82
\* Longest of the short queries, and the longest padding before a cue.
MaxShortLen == 6
MaxPad == 2
\* How far past a truncation cap the measured texts reach.
MaxExcess == 1
\* hours the clock advances while sessions are operated side by side
MaxDrift == 1

\* --------------------------------------------------------------- constants
DEFAULT == "default"
AUTO == "auto"
FULL_AUTO == "full_auto"
AgentMode == {DEFAULT, AUTO, FULL_AUTO}

\* AgentConfig.dangerous_commands, the default list: each pattern is the
\* text of the regular expression, "^" included.
dangerous_commands ==
  << <<"^","r","m">>, <<"^","s","u","d","o">>, <<"^","c","h","m","o","d">>,
     <<"^","c","h","o","w","n">>, <<"^","m","k","f","s">>, <<"^","d","d">>,
     <<"^",">">>, <<"^",">",">">> >>

\* Characters the enumerated command texts are built from.
CmdChars == {"r", "m", "d", ">", "l", " "}

\* ---------------------------------------------------------- text helpers
\* All sequences over S of length at most n.
SeqsUpTo(S, n) == UNION {[1..k -> S] : k \in 0..n}

\* text[i..] starts with lit.
MatchAt(lit, text, i) ==
  /\ i + Len(lit) - 1 <= Len(text)
  /\ \A k \in 1..Len(lit) : text[i + k - 1] = lit[k]

\* re.search(pattern, text) for the patterns of the configuration: an
\* optional leading "^" (match only at the start of the text) followed by
\* literal characters.
re_search_unanchored(pattern, text) ==
  LET lit == IF Len(pattern) > 0 /\ Head(pattern) = "^" THEN Tail(pattern) ELSE pattern
  IN  \E i \in 1..(Len(text) + 1) : MatchAt(lit, text, i)

re_search(pattern, text) ==
  IF Len(pattern) > 0 /\ Head(pattern) = "^"
  THEN MatchAt(Tail(pattern), text, 1)
  ELSE \E i \in 1..(Len(text) + 1) : MatchAt(pattern, text, i)

\* dict.get(key, default)
get(d, key, default) == IF key \in DOMAIN d THEN d[key] ELSE default

\* ------------------------------------------------------- safety policy
\* Agent.is_dangerous_command: the first matching pattern decides.
RECURSIVE AnyPatternFrom(_, _, _)
AnyPatternFrom(patterns, i, command) ==
  IF i > Len(patterns) THEN FALSE
  ELSE IF re_search(patterns[i], command) THEN TRUE
  ELSE AnyPatternFrom(patterns, i + 1, command)

is_dangerous_command(command) == AnyPatternFrom(dangerous_commands, 1, command)

\* Agent.is_safe_command
is_safe_command(command) == ~AnyPatternFrom(dangerous_commands, 1, command)

needs_confirmation_auto_as_default(mode, command) ==
  IF mode = FULL_AUTO THEN FALSE ELSE TRUE

\* Agent.needs_confirmation
needs_confirmation(mode, command) ==
  IF mode = FULL_AUTO THEN FALSE
  ELSE IF mode = AUTO THEN is_dangerous_command(command)
  ELSE TRUE

\* ------------------------------------------------------- action results
\* ActionResult(action=...) with the defaults of the class.
ActionResult(action) ==
  [action |-> action, command |-> <<>>, success |-> FALSE, output |-> "",
   error |-> "", needs_confirmation |-> FALSE, is_dangerous |-> FALSE]

\* What the outside world answers to one engine step: "ok" (exit status 0,
\* file read or written), "fail" (non-zero exit status, file missing),
\* "fault" (the executor or the file access raised).
Outcomes == {"ok", "fail", "fault"}

\* A JSON value that is not a string (a number, say) in a field of a tool
\* call: json.loads hands it on as it is.  It is not empty.
NotAString == <<"#number">>

isinstance_str(value) == value # NotAString

\* An engine step that ends in an exception instead of an ActionResult.
Raised(exc) == [raised |-> exc]

IsRaised(step) == "raised" \in DOMAIN step

\* One engine step: the ActionResult and what it called on the way.
\*   asked: the confirmation callback was invoked;  approved: it was invoked
\*   and answered allow;  ran: the process executor was invoked;  wrote: the
\*   file was opened for writing.
Step(result, asked, approved, ran, wrote) ==
  [result |-> result, asked |-> asked, approved |-> approved, ran |-> ran,
   wrote |-> wrote]

execute_command_ignoring_denial(mode, on_command, command, confirm, outcome) ==
  LET result == [ActionResult("execute") EXCEPT
                   !.command = command,
                   !.needs_confirmation = needs_confirmation(mode, command),
                   !.is_dangerous = is_dangerous_command(command)]
      asked == result.needs_confirmation /\ on_command
  IN  Step([result EXCEPT !.success = (outcome = "ok"), !.output = "stdout",
                          !.error = "stderr"], asked, asked /\ confirm, TRUE, FALSE)

\* Agent.execute_command.  Tokens: "cancel_exec" is the denial text of line
\* 106, "stdout"/"stderr" the captured and truncated streams, "exc" str(e).
execute_command(mode, on_command, command, confirm, outcome) ==
  LET result == [ActionResult("execute") EXCEPT
                   !.command = command,
                   !.needs_confirmation = needs_confirmation(mode, command),
                   !.is_dangerous = is_dangerous_command(command)]
      asked == result.needs_confirmation /\ on_command
  IN  IF ~isinstance_str(command)
      THEN Raised("TypeError")
      ELSE IF asked /\ ~confirm
      THEN Step([result EXCEPT !.success = FALSE, !.error = "cancel_exec"],
                TRUE, FALSE, FALSE, FALSE)
      ELSE IF outcome = "fault"
      THEN Step([result EXCEPT !.success = FALSE, !.error = "exc"],
                asked, asked, TRUE, FALSE)
      ELSE Step([result EXCEPT !.success = (outcome = "ok"), !.output = "stdout",
                               !.error = "stderr"], asked, asked, TRUE, FALSE)

\* Agent.read_file.  Tokens: "file_missing" is the text of line 136,
\* "content" the file's text cut to 5000 characters.
read_file(path, outcome) ==
  LET result == ActionResult("read_file")
  IN  IF outcome = "fault"
      THEN Step([result EXCEPT !.success = FALSE, !.error = "exc"],
                FALSE, FALSE, FALSE, FALSE)
      ELSE IF outcome = "fail"
      THEN Step([result EXCEPT !.success = FALSE, !.error = "file_missing"],
                FALSE, FALSE, FALSE, FALSE)
      ELSE Step([result EXCEPT !.success = TRUE, !.output = "content"],
                FALSE, FALSE, FALSE, FALSE)

write_file_unflagged(on_command, path, content, confirm, outcome) ==
  LET result == ActionResult("write_file")
  IN  IF on_command /\ ~confirm
      THEN Step([result EXCEPT !.success = FALSE, !.error = "cancel_write"],
                TRUE, FALSE, FALSE, FALSE)
      ELSE IF outcome = "ok"
      THEN Step([result EXCEPT !.success = TRUE, !.output = "written"],
                on_command, on_command, FALSE, TRUE)
      ELSE Step([result EXCEPT !.success = FALSE, !.error = "exc"],
                on_command, on_command, FALSE, TRUE)

\* Agent.write_file.  Tokens: "cancel_write" is the denial text of line 161,
\* "written" the report of line 169.
write_file(on_command, path, content, confirm, outcome) ==
  LET result == [ActionResult("write_file") EXCEPT
                   !.needs_confirmation = TRUE, !.is_dangerous = TRUE]
  IN  IF on_command /\ ~confirm
      THEN Step([result EXCEPT !.success = FALSE, !.error = "cancel_write"],
                TRUE, FALSE, FALSE, FALSE)
      ELSE IF outcome = "ok"
      THEN Step([result EXCEPT !.success = TRUE, !.output = "written"],
                on_command, on_command, FALSE, TRUE)
      ELSE Step([result EXCEPT !.success = FALSE, !.error = "exc"],
                on_command, on_command, FALSE, TRUE)

\* Agent._execute_action, the "execute" branch.  "empty_command" is the text
\* of line 238.
execute_branch_no_empty_check(mode, on_command, action, confirm, outcome) ==
  execute_command(mode, on_command, get(action, "command", <<>>), confirm, outcome)

execute_branch(mode, on_command, action, confirm, outcome) ==
  LET command == get(action, "command", <<>>)
  IN  IF command = <<>>
      THEN Step([ActionResult("execute") EXCEPT !.success = FALSE,
                   !.error = "empty_command"], FALSE, FALSE, FALSE, FALSE)
      ELSE execute_command(mode, on_command, command, confirm, outcome)

\* Agent._execute_action, the "read_file" branch.  "no_path" is the text of
\* lines 244 and 251.
read_file_branch(action, outcome) ==
  LET path == get(action, "path", "")
  IN  IF path = ""
      THEN Step([ActionResult("read_file") EXCEPT !.success = FALSE,
                   !.error = "no_path"], FALSE, FALSE, FALSE, FALSE)
      ELSE read_file(path, outcome)

\* Agent._execute_action, the "write_file" branch.
write_file_branch(on_command, action, confirm, outcome) ==
  LET path == get(action, "path", "")
      content == get(action, "content", "")
  IN  IF path = ""
      THEN Step([ActionResult("write_file") EXCEPT !.success = FALSE,
                   !.error = "no_path"], FALSE, FALSE, FALSE, FALSE)
      ELSE write_file(on_command, path, content, confirm, outcome)

\* Agent._execute_action.  Default texts: "task_done" is the default message
\* of lines 219, 268 and 328, "llm_failed" that of line 276,
\* "unknown_action" the text of line 283.
_execute_action(mode, on_command, action, confirm, outcome) ==
  LET action_type == get(action, "action", "unknown")
  IN  IF action_type = "execute"
      THEN execute_branch(mode, on_command, action, confirm, outcome)
      ELSE IF action_type = "read_file"
      THEN read_file_branch(action, outcome)
      ELSE IF action_type = "write_file"
      THEN write_file_branch(on_command, action, confirm, outcome)
      ELSE IF action_type = "ask_user"
      THEN Step([ActionResult("ask_user") EXCEPT !.success = TRUE,
                   !.output = get(action, "question", ""),
                   !.needs_confirmation = TRUE], FALSE, FALSE, FALSE, FALSE)
      ELSE IF action_type = "done"
      THEN Step([ActionResult("done") EXCEPT !.success = TRUE,
                   !.output = get(action, "message", "task_done")],
                FALSE, FALSE, FALSE, FALSE)
      ELSE IF action_type = "error"
      THEN Step([ActionResult("error") EXCEPT !.success = FALSE,
                   !.error = get(action, "message", "llm_failed")],
                FALSE, FALSE, FALSE, FALSE)
      ELSE Step([ActionResult("unknown") EXCEPT !.success = FALSE,
                   !.error = "unknown_action"], FALSE, FALSE, FALSE, FALSE)

\* ------------------------------------------------- the reasoning adapter
\* Actions LLMClient.generate_agent_action can hand back: the mapped tool
\* calls (every key present, possibly empty), a parsed JSON object (keys may
\* be missing), an unmapped tool name, and the adapter's own failure.
ls == <<"l", "s">>
rm == <<"r", "m">>

AdapterActions ==
  { [action |-> "execute", command |-> ls],
    [action |-> "execute", command |-> rm],
    [action |-> "execute", command |-> <<>>],
    [action |-> "read_file", path |-> "p"],
    [action |-> "read_file", path |-> ""],
    [action |-> "write_file", path |-> "p", content |-> "c"],
    [action |-> "write_file", path |-> "", content |-> "c"],
    [action |-> "ask_user", question |-> "q"],
    [action |-> "done", message |-> "m"],
    [action |-> "done"],
    [action |-> "error", message |-> "e"],
    [action |-> "unknown", raw |-> "x"] }

\* A history entry.  json.dumps(action) is one-to-one on the actions, so the
\* assistant's content is the action itself; a user entry carries its text.
assistant_entry(action) == [role |-> "assistant", content |-> action]
user_entry(text) == [role |-> "user", content |-> [text |-> text]]

\* ------------------------------------------------- the complexity router
\* A query is a sequence of characters; a character outside ASCII is named
\* by its code point ("U7136" is the first character of the first keyword).
\* MULTI_STEP_KEYWORDS, each the text of its regular expression.
MULTI_STEP_KEYWORDS ==
  << <<"U7136", "U540E">>,
     <<"U5E76", "U4E14">>,
     <<"U63A5", "U7740">>,
     <<"U4E4B", "U540E">>,
     <<"U540C", "U65F6">>,
     <<"U6700", "U540E">>,
     <<"U5206", "U6790", ".", "*", "U5E76">>,
     <<"U627E", "U51FA", ".", "*", "U5E76">>,
     <<"U521B", "U5EFA", ".", "*", "U5E76">>,
     <<"U5B89", "U88C5", ".", "*", "U5E76">>,
     <<"U538B", "U7F29", ".", "*", "U5E76">>,
     <<"U6279", "U91CF">>,
     <<"U6240", "U6709", ".", "*", "U6587", "U4EF6">>,
     <<"U9012", "U5F52">>,
     <<"U76EE", "U5F55", "U6811">>,
     <<"U90E8", "U7F72">>,
     <<"U642D", "U5EFA">>,
     <<"U914D", "U7F6E", ".", "*", "U9879", "U76EE">>,
     <<"U521D", "U59CB", "U5316", ".", "*", "U9879", "U76EE">>,
     <<"U76D1", "U63A7">>,
     <<"U6301", "U7EED">>,
     <<"U5FAA", "U73AF">>,
     <<"a", "n", "d", " ", "t", "h", "e", "n">>,
     <<"a", "f", "t", "e", "r", " ", "t", "h", "a", "t">>,
     <<"t", "h", "e", "n">>,
     <<"f", "i", "n", "a", "l", "l", "y">>,
     <<"b", "a", "t", "c", "h">>,
     <<"a", "l", "l", " ", "f", "i", "l", "e", "s">>,
     <<"r", "e", "c", "u", "r", "s", "i", "v", "e">>,
     <<"d", "e", "p", "l", "o", "y">>,
     <<"s", "e", "t", "u", "p">> >>

\* The length above which a query counts as multi-step (line 479).
LengthThreshold == 80

UpperCase == <<"A","B","C","D","E","F","G","H","I","J","K","L","M",
               "N","O","P","Q","R","S","T","U","V","W","X","Y","Z">>
LowerCase == <<"a","b","c","d","e","f","g","h","i","j","k","l","m",
               "n","o","p","q","r","s","t","u","v","w","x","y","z">>

\* str.lower(), character by character, on the characters of the model.
lower(text) ==
  [i \in 1..Len(text) |->
     IF \E k \in 1..Len(UpperCase) : UpperCase[k] = text[i]
     THEN LowerCase[CHOOSE k \in 1..Len(UpperCase) : UpperCase[k] = text[i]]
     ELSE text[i]]

\* The keyword from its k-th character on matches text at position i:
\* literal characters, "." (any character but a newline) and ".*".
RECURSIVE re_match(_, _, _, _)
re_match(kw, k, text, i) ==
  IF k > Len(kw) THEN TRUE
  ELSE IF kw[k] = "." /\ k < Len(kw) /\ kw[k + 1] = "*"
  THEN \E j \in i..(Len(text) + 1) :
         /\ \A m \in i..(j - 1) : text[m] # "\n"
         /\ re_match(kw, k + 2, text, j)
  ELSE /\ i <= Len(text)
       /\ IF kw[k] = "." THEN text[i] # "\n" ELSE text[i] = kw[k]
       /\ re_match(kw, k + 1, text, i + 1)

\* re.search(kw, text) for the keywords.
re_search_keyword(kw, text) == \E i \in 1..(Len(text) + 1) : re_match(kw, 1, text, i)

\* The loop of analyze_task_complexity over the keywords from the i-th on.
RECURSIVE AnyKeywordFrom(_, _)
AnyKeywordFrom(i, query_lower) ==
  IF i > Len(MULTI_STEP_KEYWORDS) THEN FALSE
  ELSE IF re_search_keyword(MULTI_STEP_KEYWORDS[i], query_lower) THEN TRUE
  ELSE AnyKeywordFrom(i + 1, query_lower)

analyze_task_complexity_from_threshold(query) ==
  IF AnyKeywordFrom(1, lower(query)) THEN TRUE
  ELSE Len(query) >= LengthThreshold

\* analyze_task_complexity
analyze_task_complexity(query) ==
  IF AnyKeywordFrom(1, lower(query)) THEN TRUE
  ELSE IF Len(query) > LengthThreshold THEN TRUE
  ELSE FALSE

\* --------------------------------------------------------------- state
VARIABLES
  measure,   \* one engine step with the sizes of the texts it met and made
  suggestion, \* one single-shot suggestion request and its response
  policy,    \* one evaluation of the safety policy: its inputs and outputs
  agent,     \* the Agent of one run: mode, on_command and its AgentState
  results,   \* Agent.run's list of ActionResults
  trace,     \* per iteration of the run: the action and the calls it made
  runpc,     \* "idle", "running", "returned" or "raised"
  now,       \* datetime.now(), in hours
  nextId,    \* the next fresh session id (uuid4 never repeats one)
  _sessions, \* AgentSessionManager._sessions: the ids it holds
  objects,   \* the AgentSession objects alive, by session_id
  calls,     \* the advance calls suspended at an await
  _debug_session_steps, \* server._debug_session_steps: session id -> cursor
  adapterCalls, \* adapter calls made so far by advance
  ret        \* what the last operation that returned handed back

policyVars == <<policy, suggestion, measure>>
runVars == <<agent, results, trace, runpc>>
sessVars == <<now, nextId, _sessions, objects, calls, _debug_session_steps,
              adapterCalls, ret>>
vars == <<measure, suggestion, policy, agent, results, trace, runpc, now, nextId, _sessions, objects,
          calls, _debug_session_steps, adapterCalls, ret>>

\* Python's None, where a record is expected.
None == [none |-> TRUE]

\* What an operation hands back; the fields that do not apply keep these
\* defaults.  step holds the action, command and message that a response of
\* the debug driver carries.
Ret(op, sid) ==
  [op |-> op, sid |-> sid, found |-> TRUE, result |-> None, iteration |-> 0,
   task_complete |-> FALSE, final_message |-> "", needs_confirmation |-> FALSE,
   adapter |-> FALSE, ran |-> FALSE, wrote |-> FALSE, approved |-> FALSE,
   swept |-> {}, raised |-> "", listed |-> {}, step |-> None]

SessionsIdle ==
  /\ now = 0
  /\ nextId = 1
  /\ _sessions = {}
  /\ objects = [sid \in {} |-> None]
  /\ calls = {}
  /\ _debug_session_steps = [sid \in {} |-> 0]
  /\ adapterCalls = 0
  /\ ret = Ret("none", 0)

\* An engine step that has not been taken yet.  a and b are the sizes, in
\* characters, of the texts the step meets: a of the captured stdout, the file
\* content or the text the adapter put in the action; b of the captured
\* stderr, the text of a raised exception or the resolved path.
MeasureOf(on_command, action, outcome, a, b) ==
  [on_command |-> on_command, action |-> action, outcome |-> outcome,
   a |-> a, b |-> b, evaluated |-> FALSE, output_len |-> 0, error_len |-> 0]

MeasureIdle == MeasureOf(FALSE, [action |-> "done"], "ok", 0, 0)

\* A suggestion request that has not been handled yet.
SuggestionIdle(query) ==
  [query |-> query, pc |-> "idle", use_agent |-> FALSE, command |-> <<>>,
   is_dangerous |-> FALSE, llm_calls |-> 0]

\* ------------------------------------------------- the safety policy alone
PolicyIdle(mode, command) ==
  [mode |-> mode, command |-> command, evaluated |-> FALSE,
   needs_confirmation |-> FALSE, is_dangerous |-> FALSE, is_safe |-> FALSE]

RunIdle ==
  /\ agent = [mode |-> DEFAULT, on_command |-> FALSE, iteration |-> 0,
              max_iterations |-> 0, history |-> <<>>, task_complete |-> FALSE,
              final_message |-> ""]
  /\ results = <<>>
  /\ trace = <<>>
  /\ runpc = "idle"

InitPolicy ==
  /\ policy \in {PolicyIdle(m, c) : m \in AgentMode, c \in SeqsUpTo(CmdChars, MaxCmdLen)}
  /\ suggestion = SuggestionIdle(<<>>)
  /\ measure = MeasureIdle
  /\ RunIdle
  /\ SessionsIdle

\* Agent(mode).needs_confirmation(command), is_dangerous_command, is_safe_command
EvalPolicy ==
  /\ ~policy.evaluated
  /\ policy' = [policy EXCEPT
                  !.evaluated = TRUE,
                  !.needs_confirmation = needs_confirmation(policy.mode, policy.command),
                  !.is_dangerous = is_dangerous_command(policy.command),
                  !.is_safe = is_safe_command(policy.command)]
  /\ UNCHANGED <<suggestion, measure, runVars, sessVars>>

NextPolicy == EvalPolicy

SpecPolicy == InitPolicy /\ [][NextPolicy]_vars

\* Tool calls whose arguments the reasoning engine filled in freely: a command
\* that is a string and one that is a number.
ToolCallActions ==
  { [action |-> "execute", command |-> <<"r", "m">>],
    [action |-> "execute", command |-> NotAString],
    [action |-> "execute", command |-> <<>>],
    [action |-> "read_file", path |-> "p"],
    [action |-> "done", message |-> "m"],
    [action |-> "frobnicate"] }

\* ------------------------------------------------------- the run loop
\* Agent.__init__ followed by Agent.run up to its first adapter call;
\* max_iterations is the configured config.agent.max_iterations.
RunStart(mode, on_command, max_iterations) ==
  /\ runpc = "idle"
  /\ agent' = [mode |-> mode, on_command |-> on_command, iteration |-> 0,
               max_iterations |-> max_iterations, history |-> <<>>,
               task_complete |-> FALSE, final_message |-> ""]
  /\ results' = <<>>
  /\ trace' = <<>>
  /\ runpc' = IF 0 < max_iterations THEN "running" ELSE "returned"
  /\ UNCHANGED <<policyVars, sessVars>>

loop_ends_without_break(action, after) ==
  after.task_complete \/ after.iteration >= after.max_iterations

\* The loop of Agent.run is left after this pass: the break of line 223 or
\* the condition of line 189.
loop_ends(action, after) ==
  \/ get(action, "action", "") = "error"
  \/ after.task_complete
  \/ after.iteration >= after.max_iterations

\* One pass of the while loop of Agent.run, to the next test of its
\* condition (and the return, when the loop ends).  When the engine step
\* raises, the exception leaves run: the pass has counted its iteration and
\* called the adapter, and no list of results is returned.
RunIteration(action, confirm, outcome) ==
  /\ runpc = "running"
  /\ ~agent.task_complete /\ agent.iteration < agent.max_iterations
  /\ LET step == _execute_action(agent.mode, agent.on_command, action, confirm, outcome)
         result == step.result
         shown == IF result.output # "" THEN result.output ELSE result.error
         done == get(action, "action", "") = "done"
         after == [agent EXCEPT
                     !.iteration = @ + 1,
                     !.history = @ \o <<assistant_entry(action), user_entry(shown)>>,
                     !.task_complete = IF done THEN TRUE ELSE @,
                     !.final_message = IF done THEN get(action, "message", "task_done") ELSE @]
     IN  IF IsRaised(step)
         THEN /\ agent' = [agent EXCEPT !.iteration = @ + 1]
              /\ results' = results
              /\ trace' = Append(trace, [action |-> action, asked |-> FALSE,
                                         approved |-> FALSE, ran |-> FALSE,
                                         wrote |-> FALSE])
              /\ runpc' = "raised"
         ELSE /\ agent' = after
              /\ results' = Append(results, result)
              /\ trace' = Append(trace, [action |-> action, asked |-> step.asked,
                                         approved |-> step.approved, ran |-> step.ran,
                                         wrote |-> step.wrote])
              /\ runpc' = IF loop_ends(action, after) THEN "returned" ELSE "running"
  /\ UNCHANGED <<policyVars, sessVars>>

RunAgain_keeping_state ==
  /\ runpc \in {"returned", "raised"}
  /\ agent' = [agent EXCEPT !.iteration = 0, !.task_complete = FALSE]
  /\ results' = <<>>
  /\ trace' = <<>>
  /\ runpc' = IF 0 < agent.max_iterations THEN "running" ELSE "returned"
  /\ UNCHANGED <<policyVars, sessVars>>

\* Agent.run called again on the same Agent: the state starts afresh, with
\* the mode, the callback and the configuration the Agent was built with.
RunAgain ==
  /\ runpc \in {"returned", "raised"}
  /\ agent' = [agent EXCEPT !.iteration = 0, !.history = <<>>,
                            !.task_complete = FALSE, !.final_message = ""]
  /\ results' = <<>>
  /\ trace' = <<>>
  /\ runpc' = IF 0 < agent.max_iterations THEN "running" ELSE "returned"
  /\ UNCHANGED <<policyVars, sessVars>>

InitRun ==
  /\ policy = PolicyIdle(DEFAULT, <<>>)
  /\ suggestion = SuggestionIdle(<<>>)
  /\ measure = MeasureIdle
  /\ RunIdle
  /\ SessionsIdle

NextRun ==
  \/ \E mode \in AgentMode, on_command \in BOOLEAN, n \in 0..MaxIter :
       RunStart(mode, on_command, n)
  \/ RunAgain
  \/ \E action \in AdapterActions, confirm \in BOOLEAN, outcome \in Outcomes :
       RunIteration(action, confirm, outcome)

SpecRun == InitRun /\ [][NextRun]_vars

\* The run loop fed with tool calls whose arguments the reasoning engine
\* filled in freely.  Every adapter and executor call returns, so a pass of
\* the loop that has started is completed.
NextRunCalls ==
  \/ \E mode \in AgentMode, n \in 0..MaxIter : RunStart(mode, FALSE, n)
  \/ RunAgain
  \/ \E action \in ToolCallActions, outcome \in Outcomes :
       RunIteration(action, FALSE, outcome)

SpecRunCalls ==
  /\ InitRun /\ [][NextRunCalls]_vars
  /\ WF_vars(\E action \in ToolCallActions, outcome \in Outcomes :
               RunIteration(action, FALSE, outcome))

\* The run loop of SpecRun, every started pass of which is completed.
SpecRunFair ==
  /\ SpecRun
  /\ WF_vars(\E action \in AdapterActions, confirm \in BOOLEAN, outcome \in Outcomes :
               RunIteration(action, confirm, outcome))

\* ---------------------------------------------------- sizes of the texts
\* The slices of lines 119, 120 and 140.
OUTPUT_CAP == 2000
ERROR_CAP == 1000
READ_CAP == 5000

\* The fixed texts of the source, character by character.
TEXT_cancel_exec == <<"U7528", "U6237", "U53D6", "U6D88", "U6267", "U884C">>
TEXT_cancel_write == <<"U7528", "U6237", "U53D6", "U6D88", "U5199", "U5165">>
TEXT_file_missing == <<"U6587", "U4EF6", "U4E0D", "U5B58", "U5728", ":", " ">>
TEXT_empty_command == <<"U7A7A", "U547D", "U4EE4">>
TEXT_no_path == <<"U672A", "U6307", "U5B9A", "U6587", "U4EF6", "U8DEF", "U5F84">>
TEXT_task_done == <<"U4EFB", "U52A1", "U5B8C", "U6210">>
TEXT_llm_failed == <<"L", "L", "M", " ", "U751F", "U6210", "U52A8", "U4F5C", "U5931", "U8D25">>
TEXT_unknown_action == <<"U672A", "U77E5", "U52A8", "U4F5C", "U7C7B", "U578B", ":", " ">>
TEXT_written_1 == <<"U5DF2", "U5199", "U5165", " ">>
TEXT_written_2 == <<" ", "U5B57", "U7B26", "U5230", " ">>

Min(x, y) == IF x <= y THEN x ELSE y

\* The number of digits of str(n).
RECURSIVE Digits(_)
Digits(n) == IF n < 10 THEN 1 ELSE 1 + Digits(n \div 10)

\* len(result.output) for the output an engine step produced.
output_length(output, a, b) ==
  IF output = "" THEN 0
  ELSE IF output = "stdout" THEN Min(a, OUTPUT_CAP)
  ELSE IF output = "content" THEN Min(a, READ_CAP)
  ELSE IF output = "written"
  THEN Len(TEXT_written_1) + Digits(a) + Len(TEXT_written_2) + b
  ELSE IF output = "task_done" THEN Len(TEXT_task_done)
  ELSE a

\* len(result.error) for the error an engine step produced.
error_length(error, a, b) ==
  IF error = "" THEN 0
  ELSE IF error = "stderr" THEN Min(b, ERROR_CAP)
  ELSE IF error = "exc" THEN b
  ELSE IF error = "file_missing" THEN Len(TEXT_file_missing) + b
  ELSE IF error = "cancel_exec" THEN Len(TEXT_cancel_exec)
  ELSE IF error = "cancel_write" THEN Len(TEXT_cancel_write)
  ELSE IF error = "empty_command" THEN Len(TEXT_empty_command)
  ELSE IF error = "no_path" THEN Len(TEXT_no_path)
  ELSE IF error = "llm_failed" THEN Len(TEXT_llm_failed)
  ELSE IF error = "unknown_action" THEN Len(TEXT_unknown_action) + a
  ELSE a

\* The sizes tried: tiny ones and those around each cap.
Sizes ==
  {0, 1} \cup UNION { (cap - MaxExcess)..(cap + MaxExcess) :
                        cap \in {OUTPUT_CAP, ERROR_CAP, READ_CAP} }

\* Agent._execute_action on one action, with the sizes of its result.
MeasureStep ==
  /\ ~measure.evaluated
  /\ LET step == _execute_action(DEFAULT, measure.on_command, measure.action,
                                 FALSE, measure.outcome)
     IN  measure' = [measure EXCEPT
                       !.evaluated = TRUE,
                       !.output_len = output_length(step.result.output, measure.a, measure.b),
                       !.error_len = error_length(step.result.error, measure.a, measure.b)]
  /\ UNCHANGED <<policy, suggestion, runVars, sessVars>>

InitSizes ==
  /\ policy = PolicyIdle(DEFAULT, <<>>)
  /\ suggestion = SuggestionIdle(<<>>)
  /\ measure \in {MeasureOf(on_command, action, outcome, a, b) :
                     on_command \in BOOLEAN, action \in AdapterActions,
                     outcome \in Outcomes, a \in Sizes, b \in Sizes}
  /\ RunIdle
  /\ SessionsIdle

NextSizes == MeasureStep

SpecSizes == InitSizes /\ [][NextSizes]_vars

\* ------------------------------------------------ single-shot suggestions
\* The substrings get_suggestion looks for in the generated command.
SuggestDangerous ==
  << <<"r","m"," ">>, <<"s","u","d","o"," ">>, <<"c","h","m","o","d"," ">>,
     <<"c","h","o","w","n"," ">>, <<">"," ">>, <<"m","k","f","s">>,
     <<"d","d"," ">> >>

\* The command get_suggestion puts in place of an empty one (line 219); the
\* message in its quotes is abridged to "msg".
NoCommandEcho == <<"e","c","h","o"," ","'","m","s","g","'">>

\* What generate_command hands back: a command, or "" when the call failed.
GeneratedCommands == { <<>>, <<"l","s">>, <<"r","m">>, <<"r","m"," ","x">> }

\* n copies of the filler character.
Pad(n) == [i \in 1..n |-> "x"]

\* The texts the queries are built around: none, keywords in either case, a
\* keyword with ".*" spanning a character and spanning a newline, and a
\* character that is only part of keywords.
CueTexts ==
  { <<>>, <<"t","h","e","n">>, <<"T","H","E","N">>, <<"B","a","T","c","H">>,
    <<"U7136","U540E">>, <<"U5206","U6790","x","U5E76">>,
    <<"U5206","U6790","\n","U5E76">>, <<"U5E76">>, <<"t","h","e"," ","n">> }

\* The lengths of the queries: short ones and those around the threshold.
QueryLens == (0..MaxShortLen) \cup ((LengthThreshold - 2)..MaxQueryLen)

Queries ==
  { Pad(p) \o cue \o Pad(n - p - Len(cue)) :
      <<p, cue, n>> \in { t \in (0..MaxPad) \X CueTexts \X QueryLens :
                           t[1] + Len(t[2]) <= t[3] } }

\* get_suggestion without the router: every query goes to generate_command.
GetSuggestion_always_generate ==
  /\ suggestion.pc = "idle"
  /\ suggestion' = [suggestion EXCEPT !.pc = "llm", !.llm_calls = @ + 1]
  /\ UNCHANGED <<policy, measure, runVars, sessVars>>

\* server.get_suggestion up to its await of generate_command, or to its
\* return when the router answers true.
GetSuggestion ==
  /\ suggestion.pc = "idle"
  /\ LET use_agent == analyze_task_complexity(suggestion.query)
     IN  suggestion' =
           IF use_agent
           THEN [suggestion EXCEPT !.pc = "returned", !.use_agent = TRUE,
                                   !.command = <<>>, !.is_dangerous = FALSE]
           ELSE [suggestion EXCEPT !.pc = "llm", !.llm_calls = @ + 1]
  /\ UNCHANGED <<policy, measure, runVars, sessVars>>

\* generate_command returns and get_suggestion builds its response.
GenerateCommandReturn(generated) ==
  /\ suggestion.pc = "llm"
  /\ LET command == IF generated = <<>> THEN NoCommandEcho ELSE generated
         is_dangerous == \E k \in 1..Len(SuggestDangerous) :
                           \E i \in 1..(Len(command) + 1) :
                             MatchAt(SuggestDangerous[k], command, i)
     IN  suggestion' = [suggestion EXCEPT !.pc = "returned", !.use_agent = FALSE,
                                          !.command = command,
                                          !.is_dangerous = is_dangerous]
  /\ UNCHANGED <<policy, measure, runVars, sessVars>>

InitSuggest ==
  /\ policy = PolicyIdle(DEFAULT, <<>>)
  /\ suggestion \in {SuggestionIdle(query) : query \in Queries}
  /\ measure = MeasureIdle
  /\ RunIdle
  /\ SessionsIdle

\* ------------------------------------------------------ the session store
\* AgentSessionManager.SESSION_TTL, in hours.
SESSION_TTL == 2

\* The default of the max_iterations parameter of AgentSessionManager.create.
DefaultMaxIterations == 10

\* A session whose timestamps were fixed once, when the class was defined.
AgentSession_stale_timestamps(sid, task, mode, max_iterations, t) ==
  [session_id |-> sid, task |-> task, context |-> "ctx", mode |-> mode,
   history |-> <<>>, iteration |-> 0, max_iterations |-> max_iterations,
   task_complete |-> FALSE, final_message |-> "", last_result |-> None,
   created_at |-> 0, updated_at |-> 0]

\* AgentSession(...) as create builds it at time t.
AgentSession(sid, task, mode, max_iterations, t) ==
  [session_id |-> sid, task |-> task, context |-> "ctx", mode |-> mode,
   history |-> <<>>, iteration |-> 0, max_iterations |-> max_iterations,
   task_complete |-> FALSE, final_message |-> "", last_result |-> None,
   created_at |-> t, updated_at |-> t]

\* The objects still referenced: those the store holds and those a suspended
\* advance holds.
Alive(objs, held, suspended) ==
  [sid \in (held \cup {c.sid : c \in suspended}) \cap DOMAIN objs |-> objs[sid]]

_cleanup_at_ttl(held, objs, t) ==
  {sid \in held : ~(t - objs[sid].updated_at >= SESSION_TTL)}

\* AgentSessionManager._cleanup: the ids that stay.
_cleanup(held, objs, t) ==
  {sid \in held : ~(t - objs[sid].updated_at > SESSION_TTL)}

\* server._DEBUG_SCRIPTS; "listed" and "checked" are the messages of lines 619
\* and 625.
_DEBUG_SCRIPTS ==
  [list_files |->
     << [action |-> "execute", command |-> <<"l","s"," ","-","l","a">>],
        [action |-> "execute", command |-> <<"l","s"," ","|"," ","w","c">>],
        [action |-> "done", message |-> "listed"] >>,
   check_system |->
     << [action |-> "execute", command |-> <<"u","n","a","m","e"," ","-","a">>],
        [action |-> "execute", command |-> <<"d","f"," ","-","h">>],
        [action |-> "execute", command |-> <<"f","r","e","e"," ","-","h">>],
        [action |-> "done", message |-> "checked"] >>]

\* Tasks a session is created with: a free text, or the name of a script.
Tasks == {"t"}
ScriptNames == DOMAIN _DEBUG_SCRIPTS

\* Actions the adapter proposes to a session.
SessionActions ==
  { [action |-> "execute", command |-> rm],
    [action |-> "done", message |-> "m"],
    [action |-> "error", message |-> "e"] }

\* The same, with a file write.
SessionActionsW ==
  SessionActions \cup {[action |-> "write_file", path |-> "p", content |-> "c"]}

\* What the outside world answers to an engine step of a session.
SessionOutcomes == {"ok", "fail"}

\* The last_command_result handed to advance: "" stands for None and for the
\* empty text, which advance treats alike.
Replies == {"r"}

\* The needs_confirmation the HTTP handlers compute (server.py 395-399, 461-465).
server_needs_conf(mode, result) ==
  IF mode = DEFAULT THEN TRUE
  ELSE IF mode = AUTO /\ result.is_dangerous THEN TRUE
  ELSE FALSE

\* AgentSessionManager.create
Create(task, mode, max_iterations) ==
  /\ nextId <= MaxSessions
  /\ LET sid == nextId
         session == AgentSession(sid, task, mode, max_iterations, now)
         objs == (sid :> session) @@ objects
         held == _cleanup(_sessions \cup {sid}, objs, now)
     IN  /\ _sessions' = held
         /\ objects' = Alive(objs, held, calls)
         /\ ret' = [Ret("create", sid) EXCEPT !.swept = (_sessions \cup {sid}) \ held]
  /\ nextId' = nextId + 1
  /\ UNCHANGED <<now, calls, _debug_session_steps, adapterCalls>>
  /\ UNCHANGED <<policyVars, runVars>>

advance_terminal_strict(session) ==
  session.task_complete \/ session.iteration > session.max_iterations

advance_terminal_budget_only(session) ==
  session.iteration >= session.max_iterations

advance_terminal_complete_only(session) ==
  session.task_complete

advance_terminal_after_failure(session) ==
  \/ session.task_complete \/ session.iteration >= session.max_iterations
  \/ session.iteration > 0 /\ ~session.last_result.success

\* The test of AgentSessionManager.advance, line 424.
advance_terminal(session) ==
  session.task_complete \/ session.iteration >= session.max_iterations

\* AgentSessionManager.advance (via = "mgr") and the handler agent_session_step
\* around it (via = "http"), up to the await of the adapter; a call that ends
\* before it returns here.  With serial, no advance starts on a session while
\* another one on it is suspended.
AdvanceBegin(sid, via, reply, serial) ==
  /\ IF sid \notin _sessions
     THEN /\ ret' = [Ret("advance", sid) EXCEPT !.found = FALSE]
          /\ UNCHANGED <<calls, adapterCalls>>
     ELSE LET session == objects[sid]
          IN  IF via = "http" /\ session.task_complete
              THEN /\ ret' = [Ret("advance", sid) EXCEPT
                                !.iteration = session.iteration,
                                !.task_complete = TRUE,
                                !.final_message =
                                   IF session.final_message # ""
                                   THEN session.final_message ELSE "already_done"]
                   /\ UNCHANGED <<calls, adapterCalls>>
              ELSE IF advance_terminal(session)
              THEN /\ ret' = [Ret("advance", sid) EXCEPT
                                !.iteration = session.iteration,
                                !.task_complete =
                                   IF via = "http" THEN TRUE ELSE session.task_complete,
                                !.final_message =
                                   IF via = "http" /\ session.final_message = ""
                                   THEN "max_iterations_reached"
                                   ELSE session.final_message]
                   /\ UNCHANGED <<calls, adapterCalls>>
              ELSE /\ adapterCalls < MaxAdapterCalls
                   /\ serial => \A c \in calls : c.sid # sid
                   /\ calls' = calls \cup
                        {[id |-> adapterCalls + 1, sid |-> sid, via |-> via,
                          mode |-> session.mode,
                          history |-> IF reply # ""
                                      THEN session.history \o <<user_entry(reply)>>
                                      ELSE session.history,
                          pc |-> "llm", action |-> None]}
                   /\ adapterCalls' = adapterCalls + 1
                   /\ UNCHANGED ret
  /\ UNCHANGED <<now, nextId, _sessions, objects, _debug_session_steps>>
  /\ UNCHANGED <<policyVars, runVars>>

action_is_done_never(action) == FALSE

\* The test of Agent.run_one_step, line 326.
action_is_done(action) == get(action, "action", "") = "done"

new_history_without_record(history, action) == history

\* Agent.run_one_step, lines 321-323: the action is recorded whatever its
\* result was.
new_history_replacing(history, action) == <<assistant_entry(action)>>

new_history(history, action) == history \o <<assistant_entry(action)>>

\* An advance that stores the message of whatever action came back.
Finish_recording_every_message(c, action, step) ==
  LET session == objects[c.sid]
      done == action_is_done(action)
      new == [session EXCEPT
                !.history = new_history(c.history, action),
                !.iteration = @ + 1,
                !.task_complete = done,
                !.final_message = get(action, "message", "task_done"),
                !.last_result = step.result,
                !.updated_at = now]
  IN  /\ calls' = calls \ {c}
      /\ IF IsRaised(step)
         THEN /\ _sessions' = _sessions
              /\ objects' = Alive(objects, _sessions', calls')
              /\ ret' = [Ret("advance", c.sid) EXCEPT
                           !.adapter = TRUE,
                           !.raised = IF c.via = "mgr" THEN step.raised
                                      ELSE "HTTP_500"]
         ELSE /\ _sessions' = _sessions \cup {c.sid}
              /\ objects' = Alive([objects EXCEPT ![c.sid] = new], _sessions', calls')
              /\ ret' = [Ret("advance", c.sid) EXCEPT
                           !.result = step.result,
                           !.iteration = new.iteration,
                           !.task_complete = new.task_complete,
                           !.final_message = new.final_message,
                           !.needs_confirmation =
                              IF c.via = "mgr" THEN step.result.needs_confirmation
                              ELSE server_needs_conf(new.mode, step.result),
                           !.adapter = TRUE, !.ran = step.ran, !.wrote = step.wrote,
                           !.approved = step.approved]
      /\ UNCHANGED <<now, nextId, _debug_session_steps, adapterCalls>>
      /\ UNCHANGED <<policyVars, runVars>>

\* The rest of run_one_step and of advance once _execute_action has returned:
\* lines 321-331 and 437-445, and the response the handler builds from them.
Finish(c, action, step) ==
  LET session == objects[c.sid]
      done == action_is_done(action)
      new == [session EXCEPT
                !.history = new_history(c.history, action),
                !.iteration = @ + 1,
                !.task_complete = done,
                !.final_message = IF done THEN get(action, "message", "task_done") ELSE "",
                !.last_result = step.result,
                !.updated_at = now]
  IN  /\ calls' = calls \ {c}
      /\ IF IsRaised(step)
         THEN /\ _sessions' = _sessions
              /\ objects' = Alive(objects, _sessions', calls')
              /\ ret' = [Ret("advance", c.sid) EXCEPT
                           !.adapter = TRUE,
                           !.raised = IF c.via = "mgr" THEN step.raised
                                      ELSE "HTTP_500"]
         ELSE /\ _sessions' = _sessions \cup {c.sid}
              /\ objects' = Alive([objects EXCEPT ![c.sid] = new], _sessions', calls')
              /\ ret' = [Ret("advance", c.sid) EXCEPT
                           !.result = step.result,
                           !.iteration = new.iteration,
                           !.task_complete = new.task_complete,
                           !.final_message = new.final_message,
                           !.needs_confirmation =
                              IF c.via = "mgr" THEN step.result.needs_confirmation
                              ELSE server_needs_conf(new.mode, step.result),
                           !.adapter = TRUE, !.ran = step.ran, !.wrote = step.wrote,
                           !.approved = step.approved]
      /\ UNCHANGED <<now, nextId, _debug_session_steps, adapterCalls>>
      /\ UNCHANGED <<policyVars, runVars>>

\* The Agent that advance builds (line 428) has no confirmation callback.
AdvanceEngine(c, action, outcome) ==
  _execute_action(c.mode, FALSE, action, FALSE, outcome)

NeedsProcess(action) ==
  /\ get(action, "action", "unknown") = "execute"
  /\ get(action, "command", <<>>) # <<>>
  /\ isinstance_str(get(action, "command", <<>>))

\* An advance that asks the adapter again when its answer is an Error action.
AdapterReturn_retrying(c, action, outcome) ==
  /\ c \in calls /\ c.pc = "llm"
  /\ IF get(action, "action", "unknown") = "error" /\ adapterCalls < MaxAdapterCalls
     THEN /\ adapterCalls' = adapterCalls + 1
          /\ UNCHANGED <<now, nextId, _sessions, objects, calls,
                         _debug_session_steps, ret>>
          /\ UNCHANGED <<policyVars, runVars>>
     ELSE IF NeedsProcess(action)
     THEN /\ calls' = (calls \ {c}) \cup {[c EXCEPT !.pc = "proc", !.action = action]}
          /\ UNCHANGED <<now, nextId, _sessions, objects, _debug_session_steps,
                         adapterCalls, ret>>
          /\ UNCHANGED <<policyVars, runVars>>
     ELSE Finish(c, action, AdvanceEngine(c, action, outcome))

\* The adapter answers a suspended advance.  An Execute of a non-empty
\* command suspends again, at the subprocess; any other action is carried out
\* without another await and the call returns.
AdapterReturn(c, action, outcome) ==
  /\ c \in calls /\ c.pc = "llm"
  /\ IF NeedsProcess(action)
     THEN /\ calls' = (calls \ {c}) \cup {[c EXCEPT !.pc = "proc", !.action = action]}
          /\ UNCHANGED <<now, nextId, _sessions, objects, _debug_session_steps,
                         adapterCalls, ret>>
          /\ UNCHANGED <<policyVars, runVars>>
     ELSE Finish(c, action, AdvanceEngine(c, action, outcome))

\* The subprocess of a suspended advance ends (or could not be started).
ProcReturn(c, outcome) ==
  /\ c \in calls /\ c.pc = "proc"
  /\ Finish(c, c.action, AdvanceEngine(c, c.action, outcome))

\* delete as a clear of the whole store.
Delete_clear(sid) ==
  /\ _sessions' = {}
  /\ objects' = Alive(objects, _sessions', calls)
  /\ UNCHANGED <<ret, now, nextId, calls, _debug_session_steps, adapterCalls>>
  /\ UNCHANGED <<policyVars, runVars>>

\* AgentSessionManager.delete (it hands nothing back)
Delete(sid) ==
  /\ _sessions' = _sessions \ {sid}
  /\ objects' = Alive(objects, _sessions', calls)
  /\ UNCHANGED <<ret, now, nextId, calls, _debug_session_steps, adapterCalls>>
  /\ UNCHANGED <<policyVars, runVars>>

\* The delete handler without its lookup: every id is answered with "ok".
HttpDelete_without_lookup(sid) ==
  /\ _sessions' = _sessions \ {sid}
  /\ objects' = Alive(objects, _sessions', calls)
  /\ ret' = Ret("delete", sid)
  /\ UNCHANGED <<now, nextId, calls, _debug_session_steps, adapterCalls>>
  /\ UNCHANGED <<policyVars, runVars>>

\* server.agent_session_delete: not-found for an id the store does not hold.
HttpDelete(sid) ==
  /\ IF sid \notin _sessions
     THEN /\ ret' = [Ret("delete", sid) EXCEPT !.found = FALSE]
          /\ UNCHANGED <<_sessions, objects>>
     ELSE /\ _sessions' = _sessions \ {sid}
          /\ objects' = Alive(objects, _sessions', calls)
          /\ ret' = Ret("delete", sid)
  /\ UNCHANGED <<now, nextId, calls, _debug_session_steps, adapterCalls>>
  /\ UNCHANGED <<policyVars, runVars>>

\* A status query whose lookup sweeps the expired sessions first.
Status_sweeping(sid) ==
  LET held == _cleanup(_sessions, objects, now)
  IN  /\ _sessions' = held
      /\ objects' = Alive(objects, held, calls)
      /\ ret' = IF sid \notin held
                THEN [Ret("status", sid) EXCEPT !.found = FALSE]
                ELSE [Ret("status", sid) EXCEPT
                        !.iteration = objects[sid].iteration,
                        !.task_complete = objects[sid].task_complete,
                        !.final_message = objects[sid].final_message]
      /\ UNCHANGED <<now, nextId, calls, _debug_session_steps, adapterCalls>>
      /\ UNCHANGED <<policyVars, runVars>>

\* server.agent_session_status
Status(sid) ==
  /\ ret' = IF sid \notin _sessions
            THEN [Ret("status", sid) EXCEPT !.found = FALSE]
            ELSE [Ret("status", sid) EXCEPT
                    !.iteration = objects[sid].iteration,
                    !.task_complete = objects[sid].task_complete,
                    !.final_message = objects[sid].final_message]
  /\ UNCHANGED <<now, nextId, _sessions, objects, calls, _debug_session_steps,
                 adapterCalls>>
  /\ UNCHANGED <<policyVars, runVars>>

\* AgentSessionManager.get, called at time now: the lookup alone, which
\* stamps nothing.  What it hands back carries the time of the call.
Get(sid) ==
  /\ ret' = [op |-> "get", sid |-> sid, found |-> (sid \in _sessions), at |-> now]
  /\ UNCHANGED <<now, nextId, _sessions, objects, calls, _debug_session_steps,
                 adapterCalls>>
  /\ UNCHANGED <<policyVars, runVars>>

\* server.agent_sessions_list
ListSessions ==
  /\ ret' = [Ret("list", 0) EXCEPT !.listed = _sessions]
  /\ UNCHANGED <<now, nextId, _sessions, objects, calls, _debug_session_steps,
                 adapterCalls>>
  /\ UNCHANGED <<policyVars, runVars>>

\* update stamping every stored session.
Update_stamping_all(sid) ==
  /\ sid \in _sessions
  /\ objects' = [other \in DOMAIN objects |->
                   IF other \in _sessions
                   THEN [objects[other] EXCEPT !.updated_at = now]
                   ELSE objects[other]]
  /\ UNCHANGED <<ret, now, nextId, _sessions, calls, _debug_session_steps, adapterCalls>>
  /\ UNCHANGED <<policyVars, runVars>>

\* update stamping both timestamps.
Update_stamping_created_at(sid) ==
  /\ sid \in _sessions
  /\ objects' = [objects EXCEPT ![sid].updated_at = now, ![sid].created_at = now]
  /\ UNCHANGED <<ret, now, nextId, _sessions, calls, _debug_session_steps, adapterCalls>>
  /\ UNCHANGED <<policyVars, runVars>>

\* AgentSessionManager.update, on a session got from the store (it hands
\* nothing back).
Update(sid) ==
  /\ sid \in _sessions
  /\ objects' = [objects EXCEPT ![sid].updated_at = now]
  /\ UNCHANGED <<ret, now, nextId, _sessions, calls, _debug_session_steps, adapterCalls>>
  /\ UNCHANGED <<policyVars, runVars>>

\* server.debug_agent_session_start
DebugStart(task, mode) ==
  /\ nextId <= MaxSessions
  /\ LET sid == nextId
         session == AgentSession(sid, task, mode, DefaultMaxIterations, now)
         objs == (sid :> session) @@ objects
         held == _cleanup(_sessions \cup {sid}, objs, now)
         step == _DEBUG_SCRIPTS[task][1]
     IN  /\ _sessions' = held
         /\ objects' = Alive(objs, held, calls)
         /\ _debug_session_steps' = (sid :> 1) @@ _debug_session_steps
         /\ ret' = [Ret("debug_start", sid) EXCEPT
                      !.step = step,
                      !.iteration = 1,
                      !.task_complete = (step.action = "done"),
                      !.final_message =
                         IF step.action = "done" THEN get(step, "message", "") ELSE "",
                      !.needs_confirmation = (mode = DEFAULT),
                      !.swept = (_sessions \cup {sid}) \ held]
  /\ nextId' = nextId + 1
  /\ UNCHANGED <<now, calls, adapterCalls>>
  /\ UNCHANGED <<policyVars, runVars>>

\* A debug step that keeps one cursor for all sessions.
DebugStep_shared_cursor(sid) ==
  /\ IF sid \notin _sessions \/ sid \notin DOMAIN _debug_session_steps
     THEN /\ ret' = [Ret("debug_step", sid) EXCEPT !.found = FALSE]
          /\ UNCHANGED <<objects, _debug_session_steps>>
     ELSE LET session == objects[sid]
              script == _DEBUG_SCRIPTS[session.task]
              idx == _debug_session_steps[sid]
          IN  IF idx >= Len(script)
              THEN /\ objects' = [objects EXCEPT ![sid].task_complete = TRUE,
                                                 ![sid].updated_at = now]
                   /\ ret' = [Ret("debug_step", sid) EXCEPT
                                !.step = [action |-> "done"],
                                !.iteration = idx + 1,
                                !.task_complete = TRUE,
                                !.final_message = "script_finished"]
                   /\ UNCHANGED _debug_session_steps
              ELSE LET step == script[idx + 1]
                       is_done == step.action = "done"
                   IN  /\ _debug_session_steps' =
                            [other \in DOMAIN _debug_session_steps |-> idx + 1]
                       /\ objects' = [objects EXCEPT
                            ![sid].iteration = idx + 1,
                            ![sid].task_complete = IF is_done THEN TRUE ELSE @,
                            ![sid].final_message =
                               IF is_done THEN get(step, "message", "") ELSE @,
                            ![sid].updated_at = now]
                       /\ ret' = [Ret("debug_step", sid) EXCEPT
                                    !.step = step,
                                    !.iteration = idx + 1,
                                    !.task_complete = is_done,
                                    !.final_message =
                                       IF is_done THEN get(step, "message", "") ELSE "",
                                    !.needs_confirmation =
                                       (session.mode = DEFAULT /\ ~is_done)]
  /\ UNCHANGED <<now, nextId, _sessions, calls, adapterCalls>>
  /\ UNCHANGED <<policyVars, runVars>>

\* server.debug_agent_session_step.  "script_finished" is the text of line 697.
DebugStep(sid) ==
  /\ IF sid \notin _sessions \/ sid \notin DOMAIN _debug_session_steps
     THEN /\ ret' = [Ret("debug_step", sid) EXCEPT !.found = FALSE]
          /\ UNCHANGED <<objects, _debug_session_steps>>
     ELSE LET session == objects[sid]
              script == _DEBUG_SCRIPTS[session.task]
              idx == _debug_session_steps[sid]
          IN  IF idx >= Len(script)
              THEN /\ objects' = [objects EXCEPT ![sid].task_complete = TRUE,
                                                 ![sid].updated_at = now]
                   /\ ret' = [Ret("debug_step", sid) EXCEPT
                                !.step = [action |-> "done"],
                                !.iteration = idx + 1,
                                !.task_complete = TRUE,
                                !.final_message = "script_finished"]
                   /\ UNCHANGED _debug_session_steps
              ELSE LET step == script[idx + 1]
                       is_done == step.action = "done"
                   IN  /\ _debug_session_steps' =
                            [_debug_session_steps EXCEPT ![sid] = idx + 1]
                       /\ objects' = [objects EXCEPT
                            ![sid].iteration = idx + 1,
                            ![sid].task_complete = IF is_done THEN TRUE ELSE @,
                            ![sid].final_message =
                               IF is_done THEN get(step, "message", "") ELSE @,
                            ![sid].updated_at = now]
                       /\ ret' = [Ret("debug_step", sid) EXCEPT
                                    !.step = step,
                                    !.iteration = idx + 1,
                                    !.task_complete = is_done,
                                    !.final_message =
                                       IF is_done THEN get(step, "message", "") ELSE "",
                                    !.needs_confirmation =
                                       (session.mode = DEFAULT /\ ~is_done)]
  /\ UNCHANGED <<now, nextId, _sessions, calls, adapterCalls>>
  /\ UNCHANGED <<policyVars, runVars>>

\* An hour passes.
Tick ==
  /\ now < MaxTime
  /\ now' = now + 1
  /\ UNCHANGED <<nextId, _sessions, objects, calls, _debug_session_steps,
                 adapterCalls, ret>>
  /\ UNCHANGED <<policyVars, runVars>>

Init ==
  /\ policy = PolicyIdle(DEFAULT, <<>>)
  /\ suggestion = SuggestionIdle(<<>>)
  /\ measure = MeasureIdle
  /\ RunIdle
  /\ SessionsIdle

SessionIds == 1..MaxSessions
AdvancedIds == 1..MaxAdvanced

\* The store and the handlers, advances overlapping at their awaits; sessions
\* of every mode.
Next ==
  \/ \E mode \in AgentMode, n \in 1..MaxIter :
       nextId <= MaxAdvanced /\ Create("t", mode, n)
  \/ \E sid \in AdvancedIds, via \in {"mgr", "http"}, reply \in Replies :
       AdvanceBegin(sid, via, reply, FALSE)
  \/ \E c \in calls, action \in SessionActionsW, outcome \in SessionOutcomes :
       AdapterReturn(c, action, outcome)
  \/ \E c \in calls, outcome \in SessionOutcomes : ProcReturn(c, outcome)
  \/ \E sid \in AdvancedIds : Delete(sid)

Spec == Init /\ [][Next]_vars

\* The store and the handlers, each advance on a session returning before
\* the next one on it starts.
NextSerial ==
  \/ \E n \in 0..MaxIter : nextId <= MaxAdvanced /\ Create("t", DEFAULT, n)
  \/ \E sid \in AdvancedIds, via \in {"mgr", "http"}, reply \in Replies :
       AdvanceBegin(sid, via, reply, TRUE)
  \/ \E c \in calls, action \in SessionActions : AdapterReturn(c, action, "ok")
  \/ \E c \in calls, outcome \in SessionOutcomes : ProcReturn(c, outcome)
  \/ \E sid \in AdvancedIds : Delete(sid)
  \/ \E sid \in AdvancedIds : Update(sid)

SpecSerial == Init /\ [][NextSerial]_vars

\* The debug driver next to the handlers: a scripted session is started and
\* stepped, and advanced as any other session is.
NextDebug ==
  \/ \E mode \in AgentMode : nextId <= MaxAdvanced /\ DebugStart("list_files", mode)
  \/ \E sid \in AdvancedIds : DebugStep(sid)
  \/ \E sid \in AdvancedIds, via \in {"mgr", "http"}, reply \in Replies :
       AdvanceBegin(sid, via, reply, TRUE)
  \/ \E c \in calls, action \in SessionActions : AdapterReturn(c, action, "ok")
  \/ \E c \in calls, outcome \in SessionOutcomes : ProcReturn(c, outcome)
  \/ \E sid \in AdvancedIds : Delete(sid)

SpecDebug == Init /\ [][NextDebug]_vars

\* The same store under a running clock: a session is created, advanced,
\* touched and deleted while hours pass.
NextTTL ==
  \/ \E n \in 0..1 : nextId <= MaxAdvanced /\ Create("t", FULL_AUTO, n)
  \/ \E sid \in AdvancedIds, via \in {"mgr", "http"}, reply \in Replies :
       AdvanceBegin(sid, via, reply, TRUE)
  \/ \E c \in calls, action \in SessionActions :
       ~NeedsProcess(action) /\ AdapterReturn(c, action, "ok")
  \/ \E sid \in AdvancedIds : Delete(sid)
  \/ \E sid \in AdvancedIds : Update(sid)
  \/ Tick

SpecTTL == Init /\ [][NextTTL]_vars

\* The store and its lazy sweep: sessions are created, touched and deleted
\* while hours pass.
NextSweep ==
  \/ Create("t", DEFAULT, DefaultMaxIterations)
  \/ \E sid \in SessionIds : Delete(sid)
  \/ \E sid \in SessionIds : Update(sid)
  \/ Tick

SpecSweep == Init /\ [][NextSweep]_vars

\* The resumable protocol on a session: each advance returns before the next
\* starts, and the caller hands in the outcome of the last command or nothing.
ProtocolActions ==
  { [action |-> "execute", command |-> rm],
    [action |-> "read_file", path |-> "p"],
    [action |-> "done", message |-> "m"],
    [action |-> "error", message |-> "e"] }

LastCommandResults == {"", "r"}

NextProtocol ==
  \/ nextId <= MaxAdvanced /\ Create("t", AUTO, MaxIter)
  \/ \E sid \in AdvancedIds, via \in {"mgr", "http"}, reply \in LastCommandResults :
       AdvanceBegin(sid, via, reply, TRUE)
  \/ \E c \in calls, action \in ProtocolActions, outcome \in Outcomes :
       AdapterReturn(c, action, outcome)
  \/ \E c \in calls, outcome \in Outcomes : ProcReturn(c, outcome)

SpecProtocol == Init /\ [][NextProtocol]_vars

\* Scripted runs: a session advanced with the actions the adapter hands back,
\* and a debug session started and stepped through its script.
NextScript ==
  \/ nextId <= MaxAdvanced /\ Create("t", AUTO, MaxIter)
  \/ \E sid \in AdvancedIds, via \in {"mgr", "http"}, reply \in Replies :
       AdvanceBegin(sid, via, reply, TRUE)
  \/ \E c \in calls, action \in SessionActions : AdapterReturn(c, action, "ok")
  \/ \E c \in calls, outcome \in SessionOutcomes : ProcReturn(c, outcome)
  \/ \E task \in ScriptNames : nextId <= MaxAdvanced /\ DebugStart(task, DEFAULT)
  \/ \E sid \in AdvancedIds : DebugStep(sid)

SpecScript == Init /\ [][NextScript]_vars

\* The store behind its HTTP handlers: sessions are created, advanced one
\* call at a time, queried and deleted.
StoreActions ==
  { [action |-> "done", message |-> "m"],
    [action |-> "error", message |-> "e"] }

NextStore ==
  \/ Create("t", FULL_AUTO, 1)
  \/ \E sid \in SessionIds, via \in {"mgr", "http"}, reply \in Replies :
       AdvanceBegin(sid, via, reply, TRUE)
  \/ \E c \in calls, action \in StoreActions : AdapterReturn(c, action, "ok")
  \/ \E sid \in SessionIds : Delete(sid)
  \/ \E sid \in SessionIds : HttpDelete(sid)
  \/ \E sid \in SessionIds : Status(sid)

SpecStore == Init /\ [][NextStore]_vars

\* Sessions created while older ones are advanced and age.
NextCreate ==
  \/ Create("t", FULL_AUTO, 1)
  \/ \E sid \in SessionIds : AdvanceBegin(sid, "mgr", "r", TRUE)
  \/ \E c \in calls : AdapterReturn(c, [action |-> "done", message |-> "m"], "ok")
  \/ Tick

SpecCreate == Init /\ [][NextCreate]_vars

NextToolCalls ==
  \/ \E mode \in AgentMode : nextId <= MaxAdvanced /\ Create("t", mode, MaxIter)
  \/ \E sid \in AdvancedIds, via \in {"mgr", "http"} :
       AdvanceBegin(sid, via, "", TRUE)
  \/ \E c \in calls, action \in ToolCallActions, outcome \in Outcomes :
       AdapterReturn(c, action, outcome)
  \/ \E c \in calls, outcome \in Outcomes : ProcReturn(c, outcome)

SpecToolCalls == Init /\ [][NextToolCalls]_vars

\* Suggestion requests, next to a store in which sessions are created.
NextSuggest ==
  \/ GetSuggestion
  \/ \E generated \in GeneratedCommands : GenerateCommandReturn(generated)
  \/ Create("t", DEFAULT, DefaultMaxIterations)

SpecSuggest == InitSuggest /\ [][NextSuggest]_vars

\* Sessions of every mode stepped over HTTP with actions of every kind.
StepActions ==
  { [action |-> "execute", command |-> ls],
    [action |-> "execute", command |-> rm],
    [action |-> "read_file", path |-> "p"],
    [action |-> "write_file", path |-> "p", content |-> "c"],
    [action |-> "ask_user", question |-> "q"],
    [action |-> "done", message |-> "m"] }

NextStep ==
  \/ \E mode \in AgentMode : nextId <= MaxAdvanced /\ Create("t", mode, MaxIter)
  \/ \E sid \in AdvancedIds : AdvanceBegin(sid, "http", "r", TRUE)
  \/ \E c \in calls, action \in StepActions : AdapterReturn(c, action, "ok")
  \/ \E c \in calls : ProcReturn(c, "ok")

SpecStep == Init /\ [][NextStep]_vars

\* One session, created plainly or by the debug driver, under every
\* operation that can reach it afterwards, while time passes.
NextLifetime ==
  \/ nextId <= MaxAdvanced /\ Create("t", AUTO, 1)
  \/ nextId <= MaxAdvanced /\ DebugStart("list_files", DEFAULT)
  \/ \E sid \in AdvancedIds : AdvanceBegin(sid, "mgr", "r", TRUE)
  \/ \E c \in calls : AdapterReturn(c, [action |-> "done", message |-> "m"], "ok")
  \/ \E sid \in AdvancedIds : Update(sid)
  \/ \E sid \in AdvancedIds : Status(sid)
  \/ ListSessions
  \/ \E sid \in AdvancedIds : DebugStep(sid)
  \/ Tick

SpecLifetime == Init /\ [][NextLifetime]_vars

\* Sessions that age in the store under every operation of the manager and
\* of the status and delete handlers.
NextEvict ==
  \/ Create("t", FULL_AUTO, 1)
  \/ \E sid \in AdvancedIds : AdvanceBegin(sid, "mgr", "r", TRUE)
  \/ \E c \in calls : AdapterReturn(c, [action |-> "done", message |-> "m"], "ok")
  \/ \E sid \in SessionIds : Status(sid)
  \/ ListSessions
  \/ \E sid \in SessionIds : Update(sid)
  \/ \E sid \in SessionIds : Delete(sid)
  \/ Tick

SpecEvict == Init /\ [][NextEvict]_vars

\* Sessions that are looked up and touched while they age, and the sweep of
\* the next create.
NextAccess ==
  \/ Create("t", DEFAULT, DefaultMaxIterations)
  \/ \E sid \in SessionIds : Get(sid)
  \/ \E sid \in SessionIds : Update(sid)
  \/ Tick

SpecAccess == Init /\ [][NextAccess]_vars

\* The replay driver alone: debug sessions are started and stepped through
\* their scripts, several at a time.
NextReplay ==
  \/ \E task \in ScriptNames : DebugStart(task, DEFAULT)
  \/ \E sid \in SessionIds : DebugStep(sid)

SpecReplay == Init /\ [][NextReplay]_vars

\* Several sessions side by side: each is advanced, touched and deleted while
\* advances on the others are suspended, and the clock moves on by up to
\* MaxDrift hours.
NextSideBySide ==
  \/ Create("t", AUTO, 1)
  \/ \E sid \in SessionIds : AdvanceBegin(sid, "mgr", "r", TRUE)
  \/ \E c \in calls : AdapterReturn(c, [action |-> "done", message |-> "m"], "ok")
  \/ \E sid \in SessionIds : Update(sid)
  \/ \E sid \in SessionIds : Delete(sid)
  \/ now < MaxDrift /\ Tick

SpecSideBySide == Init /\ [][NextSideBySide]_vars

\* ============================================================== claims
\* command matches some configured dangerous pattern
MatchesDangerousPattern(command) ==
  \E i \in 1..Len(dangerous_commands) : re_search(dangerous_commands[i], command)

\* C1: for every command text c, with is_dangerous(c) true iff c matches some
\* configured dangerous pattern, needs_confirmation is false in mode
\* FULL_AUTO, true in mode DEFAULT and equal to is_dangerous(c) in mode AUTO.
C1_NeedsConfirmationByMode ==
  policy.evaluated =>
    /\ policy.is_dangerous = MatchesDangerousPattern(policy.command)
    /\ policy.mode = FULL_AUTO => ~policy.needs_confirmation
    /\ policy.mode = DEFAULT => policy.needs_confirmation
    /\ policy.mode = AUTO => (policy.needs_confirmation = policy.is_dangerous)

C1_Witness ==
  /\ policy.evaluated
  /\ policy.mode = AUTO
  /\ policy.command = <<"r", "m", " ">>
  /\ policy.needs_confirmation

\* The iterations of the run whose action is a WriteFile.
WriteIterations ==
  {i \in 1..Len(trace) : get(trace[i].action, "action", "unknown") = "write_file"}

C4_DenialHasNoEffect ==
  \A i \in 1..Len(trace) :
    (trace[i].asked /\ ~trace[i].approved) =>
      /\ ~results[i].success
      /\ results[i].error =
           (IF results[i].action = "execute" THEN "cancel_exec" ELSE "cancel_write")
      /\ ~trace[i].ran
      /\ ~trace[i].wrote

C4_Witness ==
  \E i, j \in 1..Len(trace) :
    /\ trace[i].asked /\ ~trace[i].approved /\ results[i].action = "execute"
    /\ trace[j].asked /\ ~trace[j].approved /\ results[j].action = "write_file"

\* C5: an Execute action with an empty command yields, in every mode, a
\* result with success = false, and neither the process executor nor the
\* confirmation callback is invoked.
C5_EmptyCommandFails ==
  \A i \in 1..Len(trace) :
    (/\ get(trace[i].action, "action", "unknown") = "execute"
     /\ get(trace[i].action, "command", <<>>) = <<>>) =>
      /\ ~results[i].success
      /\ results[i].action = "execute"
      /\ ~trace[i].ran
      /\ ~trace[i].asked

C5_Witness ==
  \E i \in 1..Len(trace) :
    /\ get(trace[i].action, "action", "unknown") = "execute"
    /\ get(trace[i].action, "command", <<>>) = <<>>
    /\ agent.mode = DEFAULT /\ agent.on_command
    /\ results[i].error = "empty_command"

\* C3: on every path that drives the engine, an Execute whose
\* needs_confirmation flag is true, and every WriteFile, reaches the process
\* executor or the filesystem only after the confirmation callback was invoked
\* for it and answered allow.  Stated on the response of a session advance.
C3_GatedActionsAreApproved ==
  (ret.op = "advance" /\ ret.adapter) =>
    /\ (ret.ran /\ ret.result.needs_confirmation) => ret.approved
    /\ ret.wrote => ret.approved

\* A step of advance, or of the HTTP step around it, that starts on session sid.
AdvanceStartsOn(sid, via) ==
  \E reply \in Replies : AdvanceBegin(sid, via, reply, FALSE)

\* A step in which a suspended advance on session sid goes on.
AdvanceResumesOn(sid) ==
  \E c \in calls :
    /\ c.sid = sid
    /\ \E outcome \in Outcomes :
         \/ \E action \in SessionActionsW : AdapterReturn(c, action, outcome)
         \/ ProcReturn(c, outcome)

\* C6: advance, and the HTTP step built on it, applied to a session whose
\* task_complete is true changes nothing, so that any number of repeated calls
\* return the same final_message, return no ActionResult and leave iteration
\* unchanged.
C6_AdvanceOnCompleteIsIdempotent ==
  [][\A sid \in SessionIds, via \in {"mgr", "http"} :
       (/\ sid \in _sessions
        /\ objects[sid].task_complete
        /\ AdvanceStartsOn(sid, via)) =>
         /\ objects' = objects /\ _sessions' = _sessions
         /\ calls' = calls /\ adapterCalls' = adapterCalls
         /\ ret'.sid = sid /\ ret'.found
         /\ ret'.result = None
         /\ ret'.task_complete
         /\ ret'.iteration = objects[sid].iteration
         /\ ret'.final_message =
              (IF via = "http" /\ objects[sid].final_message = ""
               THEN "already_done" ELSE objects[sid].final_message)]_vars

C6_Witness ==
  /\ ret.op = "advance" /\ ret.found /\ ~ret.adapter
  /\ ret.result = None
  /\ ret.sid \in _sessions
  /\ objects[ret.sid].task_complete
  /\ objects[ret.sid].iteration < objects[ret.sid].max_iterations
  /\ ret.iteration = objects[ret.sid].iteration
  /\ ret.final_message = "m"
  /\ objects[ret.sid].final_message = "m"

\* C7: advance on a session with iteration >= max_iterations returns the
\* session with every field unchanged (history, iteration, task_complete,
\* final_message, last_result, updated_at) and no result, and neither the
\* adapter nor an executor is invoked.
C7_AdvanceAtCapIsNoOp ==
  [][\A sid \in SessionIds, via \in {"mgr", "http"} :
       (/\ sid \in _sessions
        /\ objects[sid].iteration >= objects[sid].max_iterations
        /\ AdvanceStartsOn(sid, via)) =>
         /\ objects' = objects /\ _sessions' = _sessions
         /\ calls' = calls /\ adapterCalls' = adapterCalls
         /\ ret'.sid = sid /\ ret'.found
         /\ ret'.result = None
         /\ ~ret'.adapter /\ ~ret'.ran /\ ~ret'.wrote
         /\ ret'.iteration = objects[sid].iteration
         /\ via = "mgr" =>
              /\ ret'.task_complete = objects[sid].task_complete
              /\ ret'.final_message = objects[sid].final_message]_vars

C7_Witness ==
  /\ ret.op = "advance" /\ ret.found /\ ~ret.adapter
  /\ ret.result = None
  /\ ~ret.task_complete
  /\ ret.sid \in _sessions
  /\ ~objects[ret.sid].task_complete
  /\ objects[ret.sid].iteration = 1
  /\ objects[ret.sid].max_iterations = 1
  /\ objects[ret.sid].updated_at < now

C9_CompletionIsFinal ==
  [][\A sid \in _sessions \cap _sessions' :
       objects[sid].task_complete =>
         /\ objects'[sid].task_complete
         /\ objects'[sid].final_message = objects[sid].final_message]_vars

\* C10: after a create call returns, every session whose updated_at was more
\* than SESSION_TTL before the call is absent from the store, and every
\* session whose updated_at is within SESSION_TTL, the one just created
\* included, is present.
C10_CreateSweepsExpired ==
  [][nextId' # nextId =>
       /\ nextId \in _sessions'
       /\ \A sid \in _sessions :
            IF now - objects[sid].updated_at > SESSION_TTL
            THEN sid \notin _sessions'
            ELSE sid \in _sessions' /\ objects'[sid] = objects[sid]]_vars

C10_Witness ==
  /\ ret.op = "create"
  /\ ret.swept = {1}
  /\ _sessions = {2}
  /\ objects[2].updated_at = now

\* The entries of a history that have the given role.
EntriesOf(history, role) == {i \in 1..Len(history) : history[i].role = role}

RECURSIVE ActionsOf(_)
ActionsOf(history) ==
  IF history = <<>> THEN <<>>
  ELSE IF Head(history).role = "assistant"
  THEN <<Head(history).content>> \o ActionsOf(Tail(history))
  ELSE ActionsOf(Tail(history))

\* No action before the last one of the script is a Done or an Error.
PlainBeforeLast(script) ==
  \A i \in 1..(Len(script) - 1) : script[i].action \notin {"done", "error"}

\* C12: for a session whose adapter replays a script of k actions, the first
\* k-1 neither Done nor Error and the k-th Done(m), task_complete is false
\* after each of the first k-1 advances, and after exactly k advances
\* task_complete is true, final_message is m and iteration is k.  For the
\* debug driver the start call counts as the first advance.
C12_ScriptEndsAtDone ==
  \A sid \in _sessions :
    LET session == objects[sid]
    IN  IF sid \in DOMAIN _debug_session_steps
        THEN LET script == _DEBUG_SCRIPTS[session.task]
                 k == _debug_session_steps[sid]
             IN  (session.history = <<>> /\ PlainBeforeLast(script)) =>
                   IF k < Len(script)
                   THEN ~session.task_complete
                   ELSE /\ session.task_complete
                        /\ session.final_message = script[Len(script)].message
                        /\ session.iteration = Len(script)
        ELSE LET script == ActionsOf(session.history)
                 k == Len(script)
             IN  (k > 0 /\ PlainBeforeLast(script)) =>
                   IF script[k].action = "done"
                   THEN /\ session.task_complete
                        /\ session.final_message = script[k].message
                        /\ session.iteration = k
                   ELSE ~session.task_complete /\ session.iteration = k

C12_Witness ==
  \E sid \in _sessions :
    /\ sid \in DOMAIN _debug_session_steps
    /\ objects[sid].history = <<>>
    /\ _debug_session_steps[sid] = 3
    /\ objects[sid].task_complete
    /\ objects[sid].final_message = "listed"
    /\ objects[sid].iteration = 3

C12_WitnessAdvance ==
  \E sid \in _sessions :
    /\ sid \notin DOMAIN _debug_session_steps
    /\ Len(ActionsOf(objects[sid].history)) = 2
    /\ objects[sid].task_complete
    /\ objects[sid].final_message = "m"
    /\ objects[sid].iteration = 2

\* A step of advance, of the HTTP step, of the status handler or of the delete
\* handler on session id sid.
HandlerStepOn(sid) ==
  \/ \E via \in {"mgr", "http"} : AdvanceStartsOn(sid, via)
  \/ Status(sid)
  \/ HttpDelete(sid)

\* C13: advance, status and delete on a session id that is not in the store
\* hand back the absent signal, never an ActionResult, and leave the store
\* unchanged and the adapter uninvoked.
C13_AbsentIdIsSignalled ==
  [][\A sid \in SessionIds :
       (sid \notin _sessions /\ HandlerStepOn(sid)) =>
         /\ ret'.sid = sid
         /\ ~ret'.found
         /\ ret'.result = None
         /\ ~ret'.adapter
         /\ _sessions' = _sessions /\ objects' = objects
         /\ calls' = calls /\ adapterCalls' = adapterCalls]_vars

C13_Witness ==
  /\ ret.op \in {"advance", "status", "delete"}
  /\ ~ret.found
  /\ ret.sid \notin _sessions
  /\ _sessions # {}
  /\ adapterCalls > 0

\* C14: after delete(id) the store does not hold id, every other session is
\* as it was, and deleting an id the store does not hold changes nothing.
C14_DeleteFrame ==
  [][\A sid \in SessionIds :
       (Delete(sid) \/ HttpDelete(sid)) =>
         /\ sid \notin _sessions'
         /\ _sessions' = _sessions \ {sid}
         /\ \A other \in _sessions \ {sid} : objects'[other] = objects[other]
         /\ sid \notin _sessions => _sessions' = _sessions /\ objects' = objects
         /\ calls' = calls /\ nextId' = nextId]_vars

C14_Witness ==
  /\ ret.op = "delete" /\ ret.found
  /\ ret.sid \notin _sessions
  /\ \E other \in _sessions : objects[other].iteration > 0

\* C15: create stores a session under an id no stored session has, with
\* iteration 0, empty history, not complete, empty final_message and no
\* last_result; the sessions already stored keep their contents, and the new
\* session is in the store when create returns.
C15_CreateIsFresh ==
  [][nextId' # nextId =>
       LET sid == nextId
       IN  /\ sid \notin _sessions /\ sid \notin DOMAIN objects
           /\ ret'.op = "create" /\ ret'.sid = sid
           /\ sid \in _sessions'
           /\ objects'[sid].session_id = sid
           /\ objects'[sid].iteration = 0
           /\ objects'[sid].history = <<>>
           /\ ~objects'[sid].task_complete
           /\ objects'[sid].final_message = ""
           /\ objects'[sid].last_result = None
           /\ \A other \in _sessions \cap _sessions' :
                other # sid /\ objects'[other] = objects[other]]_vars

C15_Witness ==
  /\ ret.op = "create"
  /\ ret.sid \in _sessions
  /\ objects[ret.sid].iteration = 0
  /\ now > SESSION_TTL
  /\ \E other \in _sessions : objects[other].task_complete

\* C16: after an advance in which the adapter's action was Error, every later
\* advance on the session returns without invoking the adapter and without
\* changing the session.
C16_ErrorIsTerminal ==
  [][\A sid \in _sessions, reply \in LastCommandResults :
       (/\ objects[sid].iteration > 0
        /\ objects[sid].last_result.action = "error"
        /\ AdvanceBegin(sid, "mgr", reply, TRUE)) =>
         /\ calls' = calls /\ adapterCalls' = adapterCalls
         /\ objects' = objects]_vars

\* The last advance of the session ended in an execution failure: a non-zero
\* exit status, a fault of the executor or of the file access, a missing file.
ExecutionFailed(session) ==
  /\ session.iteration > 0
  /\ session.last_result.action \in {"execute", "read_file", "write_file"}
  /\ ~session.last_result.success
  /\ session.last_result.error \in {"stderr", "exc", "file_missing"}

\* C17: after an advance whose action failed at execution the session is not
\* complete, and while iteration < max_iterations the next advance invokes the
\* adapter, with a history that contains the failed action.
C17_ExecutionFailureIsNotFatal ==
  [][\A sid \in _sessions :
       LET session == objects[sid]
           h == session.history
       IN  ExecutionFailed(session) =>
             /\ ~session.task_complete
             /\ h[Len(h)].role = "assistant"
             /\ get(h[Len(h)].content, "action", "") = session.last_result.action
             /\ \A via \in {"mgr", "http"}, reply \in LastCommandResults :
                  (/\ session.iteration < session.max_iterations
                   /\ AdvanceBegin(sid, via, reply, TRUE)) =>
                    /\ adapterCalls' = adapterCalls + 1
                    /\ \E c \in calls' \ calls :
                         /\ c.sid = sid /\ c.pc = "llm"
                         /\ \E i \in 1..Len(c.history) : c.history[i] = h[Len(h)]]_vars

C17_Witness ==
  \E c \in calls :
    /\ c.pc = "llm"
    /\ c.sid \in _sessions
    /\ ExecutionFailed(objects[c.sid])
    /\ objects[c.sid].last_result.error = "file_missing"
    /\ c.history # <<>>

\* C18: whatever action the adapter returned and whatever the executor
\* answered, an advance that reached the adapter returns an ActionResult and
\* raises nothing.
C18_AdvanceNeverRaises ==
  (ret.op = "advance" /\ ret.adapter) => (ret.raised = "" /\ ret.result # None)

\* C19: when advances on one session overlap, then once all of them have
\* returned the history holds the assistant record of every one of them, one
\* per unit of iteration.
C19_OverlappingAdvancesKeepHistory ==
  \A sid \in _sessions :
    (\A c \in calls : c.sid # sid) =>
      Cardinality(EntriesOf(objects[sid].history, "assistant")) = objects[sid].iteration

\* C20: the sweep of a create call removes only sessions whose updated_at is
\* more than SESSION_TTL old, and none on which an advance is in flight.
C20_SweepSparesSessionsInFlight ==
  [][nextId' # nextId =>
       \A sid \in _sessions \ _sessions' :
         /\ now - objects[sid].updated_at > SESSION_TTL
         /\ \A c \in calls : c.sid # sid]_vars

\* C21: an advance only proposes and records an action; it never starts the
\* proposed command on the server's process executor and never opens a file
\* for writing.
C21_AdvanceOnlyProposes ==
  ret.op = "advance" => (~ret.ran /\ ~ret.wrote)

\* The router's rules taken in the opposite order: the length rule first,
\* then the keywords from the last to the first.
RouterReordered(query) ==
  \/ Len(query) > LengthThreshold
  \/ \E d \in 0..(Len(MULTI_STEP_KEYWORDS) - 1) :
       re_search_keyword(MULTI_STEP_KEYWORDS[Len(MULTI_STEP_KEYWORDS) - d], lower(query))

HasCue(query) ==
  \E k \in 1..Len(MULTI_STEP_KEYWORDS) :
    re_search_keyword(MULTI_STEP_KEYWORDS[k], lower(query))

\* C22: the router answers true exactly when the lower-cased query matches a
\* keyword or the query is longer than 80 characters, whatever the order of
\* the rules; a query without a keyword is single-step at 80 characters and
\* multi-step from 81 on.
C22_RouterIsDisjunction ==
  suggestion.pc # "idle" =>
    LET query == suggestion.query
        answer == suggestion.pc = "returned" /\ suggestion.use_agent
    IN  /\ answer = (HasCue(query) \/ Len(query) > LengthThreshold)
        /\ answer = RouterReordered(query)
        /\ (~HasCue(query) /\ Len(query) = LengthThreshold) => ~answer
        /\ (~HasCue(query) /\ Len(query) >= LengthThreshold + 1) => answer

C22_Witness ==
  /\ suggestion.pc = "llm"
  /\ Len(suggestion.query) = LengthThreshold
  /\ \E i \in 1..Len(suggestion.query) : suggestion.query[i] = "\n"

C22_WitnessLong ==
  /\ suggestion.pc = "returned" /\ suggestion.use_agent
  /\ Len(suggestion.query) = LengthThreshold + 1
  /\ ~HasCue(suggestion.query)

\* C23: the use_agent of a suggestion response is the router's answer for
\* the query; when it is true the command is empty and the adapter was not
\* called, when it is false the adapter was called exactly once; handling the
\* request creates no session.
C23_SuggestionFollowsRouter ==
  [][suggestion' # suggestion =>
       /\ nextId' = nextId /\ _sessions' = _sessions /\ objects' = objects
       /\ suggestion'.pc = "returned" =>
            /\ suggestion'.use_agent = analyze_task_complexity(suggestion'.query)
            /\ suggestion'.use_agent =>
                 suggestion'.command = <<>> /\ suggestion'.llm_calls = 0
            /\ ~suggestion'.use_agent =>
                 suggestion'.command # <<>> /\ suggestion'.llm_calls = 1]_vars

C23_Witness ==
  /\ suggestion.pc = "returned"
  /\ suggestion.use_agent
  /\ Len(suggestion.query) <= MaxShortLen
  /\ _sessions # {}

\* C24: the ActionResult of every engine step has an output of at most 2000
\* characters and an error of at most 1000 characters.
C24_ResultTextsAreCapped ==
  measure.evaluated =>
    (measure.output_len <= OUTPUT_CAP /\ measure.error_len <= ERROR_CAP)

\* The confirmation flag the policy gives an action: true for AskUser and
\* WriteFile, false for ReadFile, needs_confirmation(mode, command) for
\* Execute.
PolicyFlag(mode, result) ==
  IF result.action \in {"ask_user", "write_file"} THEN TRUE
  ELSE IF result.action = "read_file" THEN FALSE
  ELSE needs_confirmation(mode, result.command)

\* C25: the needs_confirmation flag that a session step over HTTP returns is
\* the policy flag of the action, in every mode and for every kind of action.
C25_ReturnedFlagIsPolicyFlag ==
  [][\A c \in calls :
       (/\ c.via = "http" /\ c \notin calls'
        /\ ret'.op = "advance" /\ ret'.sid = c.sid /\ ret'.result # None
        /\ ret'.result.action \in {"ask_user", "write_file", "read_file", "execute"}) =>
         ret'.needs_confirmation = PolicyFlag(c.mode, ret'.result)]_vars

\* C26: no operation changes the session_id, task, context, mode,
\* max_iterations or created_at of a session that exists.
C26_IdentityIsImmutable ==
  [][\A sid \in DOMAIN objects \cap DOMAIN objects' :
       /\ objects'[sid].session_id = objects[sid].session_id
       /\ objects'[sid].task = objects[sid].task
       /\ objects'[sid].context = objects[sid].context
       /\ objects'[sid].mode = objects[sid].mode
       /\ objects'[sid].max_iterations = objects[sid].max_iterations
       /\ objects'[sid].created_at = objects[sid].created_at]_vars

C26_Witness ==
  \E sid \in _sessions :
    /\ objects[sid].iteration > 0
    /\ objects[sid].task_complete
    /\ objects[sid].updated_at > objects[sid].created_at
    /\ ret.op = "list" /\ sid \in ret.listed

C26_WitnessDebug ==
  \E sid \in _sessions :
    /\ sid \in DOMAIN _debug_session_steps
    /\ _debug_session_steps[sid] > 1
    /\ objects[sid].updated_at > objects[sid].created_at

\* Entry e has the given role and content (a user entry holds a text, an
\* assistant entry an action).
IsEntry(e, role, content) == e.role = role /\ e.content = content

\* History p is the beginning of history q.
IsPrefix(p, q) ==
  /\ Len(p) <= Len(q)
  /\ \A i \in 1..Len(p) : IsEntry(q[i], p[i].role, p[i].content)

\* C27: with advances run one at a time the history only grows at its end.
\* An advance given a non-empty last result calls the adapter with the history
\* plus one user entry holding that result and stores that plus one assistant
\* entry; an advance given none calls the adapter with the history as it is
\* and stores it plus one assistant entry.
C27_HistoryIsAppendOnly ==
  [][/\ \A sid \in _sessions \cap _sessions' :
          IsPrefix(objects[sid].history, objects'[sid].history)
     /\ \A sid \in _sessions, via \in {"mgr", "http"}, reply \in LastCommandResults :
          (AdvanceBegin(sid, via, reply, TRUE) /\ calls' # calls) =>
            \E c \in calls' \ calls :
              LET before == objects[sid].history
              IN  /\ IsPrefix(before, c.history)
                  /\ Len(c.history) = Len(before) + (IF reply = "" THEN 0 ELSE 1)
                  /\ reply # "" => c.history[Len(c.history)] = user_entry(reply)
     /\ \A c \in {d \in calls : \A e \in calls' : e.id # d.id} :
          LET before == objects[c.sid].history
              after == objects'[c.sid].history
          IN  /\ IsPrefix(before, c.history)
              /\ Len(c.history) - Len(before) \in {0, 1}
              /\ IsPrefix(c.history, after)
              /\ Len(after) = Len(c.history) + 1
              /\ after[Len(after)].role = "assistant"
              /\ get(after[Len(after)].content, "action", "unknown")
                   = objects'[c.sid].last_result.action]_vars

C27_Witness ==
  \E sid \in _sessions :
    LET h == objects[sid].history
    IN  /\ Len(h) = 3
        /\ h[1].role = "assistant"
        /\ h[2] = user_entry("r")
        /\ h[3].role = "assistant"

\* The action field of the ActionResult of an action.
ResultKind(action) ==
  LET action_type == get(action, "action", "unknown")
  IN  IF action_type \in {"execute", "read_file", "write_file", "ask_user", "done", "error"}
      THEN action_type ELSE "unknown"

\* What holds of a run while it goes on and once it has ended: at most
\* max_iterations adapter calls, none after a Done, and at the end the run has
\* returned one ActionResult per adapter call, in call order, with
\* task_complete true exactly when a Done was seen.
RunIsBounded ==
  /\ Len(trace) <= agent.max_iterations
  /\ \A i \in 1..(Len(trace) - 1) : get(trace[i].action, "action", "") # "done"
  /\ runpc \notin {"idle", "running"} =>
       /\ runpc = "returned"
       /\ Len(results) = Len(trace)
       /\ \A i \in 1..Len(trace) : results[i].action = ResultKind(trace[i].action)
       /\ agent.task_complete =
            (\E i \in 1..Len(trace) : get(trace[i].action, "action", "") = "done")

\* C28: the run loop terminates whenever every adapter and executor call
\* returns: it makes at most max_iterations adapter calls, returns one
\* ActionResult per adapter call in call order, calls the adapter no more
\* after a Done, and returns with task_complete true iff a Done was seen.
C28_RunLoopTerminates ==
  []RunIsBounded /\ ((runpc = "running") ~> (runpc = "returned"))

\* C29: in the run loop an Error action gives a failed result and ends the
\* loop at once with task_complete false; an Unknown action gives a failed
\* result and the loop goes on while the budget allows.
C29_ErrorStopsUnknownContinues ==
  [][(runpc = "running" /\ Len(trace') = Len(trace) + 1) =>
       LET action == trace'[Len(trace')].action
           result == results'[Len(results')]
       IN  /\ Len(results') = Len(results) + 1
           /\ ResultKind(action) = "error" =>
                /\ result.action = "error" /\ ~result.success
                /\ runpc' = "returned"
                /\ ~agent'.task_complete
           /\ ResultKind(action) = "unknown" =>
                /\ result.action = "unknown" /\ ~result.success
                /\ ~agent'.task_complete
                /\ runpc' = IF agent'.iteration < agent'.max_iterations
                            THEN "running" ELSE "returned"]_vars

C29_Witness ==
  /\ runpc = "returned"
  /\ Len(trace) = 1
  /\ ResultKind(trace[1].action) = "error"
  /\ agent.iteration < agent.max_iterations
  /\ ~agent.task_complete

C29_WitnessUnknown ==
  /\ runpc = "running"
  /\ Len(trace) = 1
  /\ ResultKind(trace[1].action) = "unknown"
  /\ ~results[1].success

\* C30: in the run loop the history is empty when a run starts and, after
\* every pass, holds two entries per iteration: the assistant's action record
\* followed by the user-role result record.
C30_RunHistoryAlternates ==
  /\ runpc # "idle" =>
       /\ Len(agent.history) = 2 * agent.iteration
       /\ \A i \in 1..agent.iteration :
            /\ agent.history[2 * i - 1] = assistant_entry(trace[i].action)
            /\ agent.history[2 * i].role = "user"
  /\ Len(trace) = 0 => agent.history = <<>>

C30_Witness ==
  /\ runpc = "returned"
  /\ agent.iteration = MaxIter
  /\ Len(agent.history) = 2 * MaxIter
  /\ get(trace[Len(trace)].action, "action", "") = "error"

\* A session that is complete or has used up its budget.
IsTerminal(session) ==
  session.task_complete \/ session.iteration >= session.max_iterations

\* C31: nothing is retried inside the core.  An advance that finds its
\* session neither complete nor out of budget asks the adapter exactly once
\* and invokes an executor (the process, a file) at most once, whatever comes
\* back; an advance on a complete or exhausted session, or on an id the store
\* does not hold, invokes neither.
C31_NothingIsRetried ==
  [][/\ adapterCalls' \in {adapterCalls, adapterCalls + 1}
     /\ adapterCalls' = adapterCalls + 1 <=>
          \E c \in calls' \ calls : c.id = adapterCalls + 1 /\ c.pc = "llm"
     /\ \A c \in calls' \ calls :
          \/ /\ c.pc = "llm" /\ c.id = adapterCalls + 1
             /\ c.sid \in _sessions /\ ~IsTerminal(objects[c.sid])
          \/ /\ c.pc = "proc"
             /\ \E d \in calls \ calls' : d.id = c.id /\ d.pc = "llm"
     /\ \A c \in calls : c.pc = "proc" =>
          \/ c \in calls'
          \/ \A d \in calls' : d.id # c.id
     /\ \A sid \in SessionIds, via \in {"mgr", "http"} :
          (/\ AdvanceStartsOn(sid, via)
           /\ sid \in _sessions => IsTerminal(objects[sid])) =>
            /\ adapterCalls' = adapterCalls /\ calls' = calls
            /\ ~ret'.adapter /\ ~ret'.ran /\ ~ret'.wrote
     /\ (ret' # ret /\ ret'.op = "advance" /\ ret'.adapter) =>
          /\ ~(ret'.ran /\ ret'.wrote)
          /\ Cardinality(calls \ calls') = 1 /\ calls' \subseteq calls]_vars

C31_Witness ==
  /\ ret.op = "advance" /\ ret.adapter /\ ret.ran
  /\ ~ret.result.success
  /\ adapterCalls = 1
  /\ calls = {}

C31_WitnessTerminal ==
  /\ ret.op = "advance" /\ ~ret.adapter /\ ret.found
  /\ adapterCalls = 1
  /\ calls = {}

\* The session's last stamp is more than SESSION_TTL old.
Expired(session) == now - session.updated_at > SESSION_TTL

\* C32: a session leaves the store only through delete or through the sweep
\* that create runs: get, list_sessions, update and advance remove none, so a
\* session older than the TTL is still found by get and still advanced as
\* long as no create is called.
C32_OnlyDeleteAndCreateRemove ==
  [][\A sid \in _sessions :
       /\ sid \notin _sessions' =>
            \/ Delete(sid)
            \/ nextId' = nextId + 1 /\ Expired(objects[sid])
       /\ Expired(objects[sid]) =>
            /\ Status(sid) => ret'.found /\ ret'.sid = sid
            /\ ListSessions => sid \in ret'.listed
            /\ (AdvanceStartsOn(sid, "mgr") /\ ~IsTerminal(objects[sid])) =>
                 \E c \in calls' \ calls : c.sid = sid]_vars

C32_Witness ==
  /\ ret.op = "status" /\ ret.found
  /\ ret.sid \in _sessions
  /\ Expired(objects[ret.sid])
  /\ \E c \in calls : c.sid = ret.sid

\* Session sid was accessed at time t: created or updated then (both stamp
\* it), or found then by the latest get.
AccessedAt(sid, t) ==
  /\ sid \in _sessions
  /\ \/ objects[sid].updated_at = t
     \/ ret.op = "get" /\ ret.found /\ ret.sid = sid /\ ret.at = t

\* C33: a session accessed through create, get or update less than the TTL
\* ago is never removed by the sweep: whenever the sweep of a create removes a
\* session, every such access to it lies at least SESSION_TTL back.
C33_SweepSparesAccessedSessions ==
  [][\A sid \in _sessions, t \in 0..MaxTime :
       (nextId' # nextId /\ sid \notin _sessions' /\ AccessedAt(sid, t)) =>
         now - t >= SESSION_TTL]_vars

\* C34: in every reachable state of a session, whether the store holds it or
\* a suspended advance does, final_message is non-empty only if task_complete
\* is true.
C34_FinalMessageOnlyWhenComplete ==
  \A sid \in DOMAIN objects :
    objects[sid].final_message # "" => objects[sid].task_complete

C34_Witness ==
  \E sid \in _sessions :
    /\ objects[sid].task_complete
    /\ objects[sid].final_message = "m"
    /\ sid \in DOMAIN _debug_session_steps
    /\ objects[sid].iteration >= 2

\* C35: for each debug session the replay driver returns the script's
\* actions in script order, each once: start returns the first and leaves the
\* cursor at 1, a step call with the cursor at i returns action i + 1 and
\* moves the cursor to i + 1, and no call moves the cursor of another session.
\* The session is marked complete by the step that returns the Done action;
\* every call after the script is exhausted reports completion again and
\* returns no scripted action.
C35_ReplayFollowsScript ==
  [][/\ nextId' # nextId =>
          /\ ret'.op = "debug_start" /\ ret'.sid = nextId
          /\ ret'.step = _DEBUG_SCRIPTS[objects'[nextId].task][1]
          /\ _debug_session_steps'[nextId] = 1
          /\ \A other \in DOMAIN _debug_session_steps :
               _debug_session_steps'[other] = _debug_session_steps[other]
     /\ \A sid \in _sessions \cap DOMAIN _debug_session_steps :
          DebugStep(sid) =>
            LET script == _DEBUG_SCRIPTS[objects[sid].task]
                i == _debug_session_steps[sid]
            IN  /\ ret'.op = "debug_step" /\ ret'.sid = sid /\ ret'.found
                /\ \A other \in DOMAIN _debug_session_steps \ {sid} :
                     _debug_session_steps'[other] = _debug_session_steps[other]
                /\ IF i < Len(script)
                   THEN /\ ret'.step = script[i + 1]
                        /\ _debug_session_steps'[sid] = i + 1
                        /\ ret'.task_complete = (script[i + 1].action = "done")
                        /\ script[i + 1].action = "done" =>
                             objects'[sid].task_complete
                   ELSE /\ \A k \in 1..Len(script) : ret'.step # script[k]
                        /\ ret'.step.action = "done"
                        /\ ret'.task_complete
                        /\ objects'[sid].task_complete
                        /\ _debug_session_steps'[sid] = i]_vars

C35_Witness ==
  /\ ret.op = "debug_step" /\ ret.found
  /\ ret.final_message = "script_finished"
  /\ ret.step = [action |-> "done"]
  /\ \E other \in _sessions \ {ret.sid} :
       /\ other \in DOMAIN _debug_session_steps
       /\ _debug_session_steps[other] = 2
       /\ _debug_session_steps[ret.sid] = Len(_DEBUG_SCRIPTS[objects[ret.sid].task])
       /\ objects[ret.sid].task_complete
       /\ ~objects[other].task_complete

\* C36: even when advance calls on the same session overlap at their await
\* points, the session's iteration never exceeds max_iterations.
C36_IterationWithinBudgetUnderOverlap ==
  \A sid \in DOMAIN objects :
    objects[sid].iteration <= objects[sid].max_iterations

\* C37: even when advance calls on the same session overlap at their await
\* points, once one of them has set task_complete (Done), no other advance in
\* flight resets task_complete or overwrites final_message.
C37_CompletionSurvivesOverlap ==
  [][\A sid \in DOMAIN objects \cap DOMAIN objects' :
       (objects[sid].task_complete /\ AdvanceResumesOn(sid)) =>
         /\ objects'[sid].task_complete
         /\ objects'[sid].final_message = objects[sid].final_message]_vars

\* C38: if a session is removed while an advance on it is suspended, it stays
\* absent after that advance completes: the final update of advance never
\* puts a removed session back into the store.
C38_RemovedSessionStaysAbsent ==
  [][\A sid \in SessionIds :
       (sid \notin _sessions /\ AdvanceResumesOn(sid)) =>
         sid \notin _sessions']_vars

\* A step of advance, update or delete on session id a.
OperationOn(a) ==
  \/ AdvanceStartsOn(a, "mgr")
  \/ AdvanceResumesOn(a)
  \/ Update(a)
  \/ Delete(a)

\* C39: sessions are isolated.  A step of advance, update or delete on
\* session id a, whatever is suspended on other ids, leaves every other stored
\* session in the store with every field as it was.
C39_SessionsAreIsolated ==
  [][\A a \in SessionIds :
       OperationOn(a) =>
         \A b \in _sessions \ {a} :
           /\ b \in _sessions'
           /\ objects'[b] = objects[b]]_vars

C39_Witness ==
  /\ ret.op = "advance" /\ ret.adapter /\ ret.sid = 1
  /\ _sessions = {1, 2}
  /\ objects[1].task_complete /\ objects[1].updated_at = now
  /\ objects[2].iteration = 0 /\ objects[2].updated_at < now
  /\ \E c \in calls : c.sid = 2

\* C40: in every response of a session start or step, real or debug, the
\* iteration and task_complete fields equal the iteration and task_complete
\* stored for that session, which a status query issued next reports.
C40_ResponseMatchesStore ==
  (/\ ret.op \in {"advance", "debug_start", "debug_step"}
   /\ ret.found /\ ret.raised = ""
   /\ ret.sid \in _sessions) =>
    /\ ret.iteration = objects[ret.sid].iteration
    /\ ret.task_complete = objects[ret.sid].task_complete

====
